---- MODULE Spec2Model ----
(***************************************************************************)
(* Scheduling subsystem of the mesa agent-based modelling framework        *)
(* (src/mesa/time.py, src/mesa/model.py, src/mesa/agent.py): the family of *)
(* schedulers over the per-model agent registry, as a state machine.       *)
(***************************************************************************)
EXTENDS Integers, Sequences, FiniteSets, TLC

(***************************************************************************)
(* Bounds of the model.                                                    *)
(***************************************************************************)
MaxAgents == 3
MaxMetas == 2
MaxSteps == 2
MaxQueueSteps == 4
MaxSeed == 0
MaxMut == 2
MaxTimeStep == 1
MaxTime == 2
MaxDelay == 1
MaxQueue == 2
MaxHeap == 4
MaxIds == 5
MaxCalls == 3
MaxEventAgents == 2
RngMod == 3

(***************************************************************************)
(* Python floats (IEEE-754 binary64), for StagedActivation's clock.        *)
(* A non-negative float below 16 is held exactly as a fixed-point number   *)
(* with FracBits fractional bits, in three little-endian limbs of          *)
(* LimbBits bits. Every double met here (1/N for N <= 16 and sums of such) *)
(* is a multiple of 2^-FracBits, so the representation is exact and the    *)
(* only rounding is the one the operators below perform (round to 53       *)
(* significant bits, ties to even), as the hardware does.                  *)
(***************************************************************************)
RECURSIVE Pow2(_)
Pow2(n) == IF n = 0 THEN 1 ELSE 2 * Pow2(n - 1)

LimbBits == 10 + 10
LimbBase == Pow2(LimbBits)
FracBits == 50 + 6
Mantissa == 50 + 3

RECURSIVE Bits(_)
Bits(n) == IF n = 0 THEN 0 ELSE 1 + Bits(n \div 2)

BZero == <<0, 0, 0>>

BAdd(x, y) ==
    LET s1 == x[1] + y[1]
        s2 == x[2] + y[2] + (s1 \div LimbBase)
        s3 == x[3] + y[3] + (s2 \div LimbBase)
    IN  <<s1 % LimbBase, s2 % LimbBase, s3 % LimbBase>>

BMulSmall(x, m) ==
    LET p1 == x[1] * m
        p2 == x[2] * m + (p1 \div LimbBase)
        p3 == x[3] * m + (p2 \div LimbBase)
    IN  <<p1 % LimbBase, p2 % LimbBase, p3 % LimbBase>>

\* quotient and remainder of x by a small m (m <= 2^10)
BDivSmall(x, m) ==
    LET t3 == x[3]
        t2 == (t3 % m) * LimbBase + x[2]
        t1 == (t2 % m) * LimbBase + x[1]
    IN  [q |-> <<t1 \div m, t2 \div m, t3 \div m>>, r |-> t1 % m]

BPow2(e) ==
    [i \in 1..3 |-> IF i = (e \div LimbBits) + 1 THEN Pow2(e % LimbBits) ELSE 0]

BitLen(x) ==
    IF x[3] > 0 THEN 2 * LimbBits + Bits(x[3])
    ELSE IF x[2] > 0 THEN LimbBits + Bits(x[2])
    ELSE Bits(x[1])

BLess(x, y) ==
    \/ x[3] < y[3]
    \/ x[3] = y[3] /\ x[2] < y[2]
    \/ x[3] = y[3] /\ x[2] = y[2] /\ x[1] < y[1]

\* round an exact value to the nearest double, ties to even
RoundToDouble(x) ==
    LET len == BitLen(x) IN
    IF len <= Mantissa THEN x
    ELSE LET p    == Pow2(len - Mantissa)
             qr   == BDivSmall(x, p)
             up   == \/ 2 * qr.r > p
                     \/ 2 * qr.r = p /\ qr.q[1] % 2 = 1
             q    == IF up THEN BAdd(qr.q, <<1, 0, 0>>) ELSE qr.q
         IN  BMulSmall(q, p)

\* float(n) for a small non-negative integer n
FromInt(n) == BMulSmall(BPow2(FracBits), n)

\* x + y on floats
FAdd(x, y) == RoundToDouble(BAdd(x, y))

\* 1 / n on a positive integer n <= 16: the correctly rounded quotient
FDivOne(n) ==
    LET k  == Bits(n - 1)                 \* least k with 2^k >= n
        e  == k + Mantissa - 1            \* 2^e / n lies in (2^52, 2^53]
        qr == BDivSmall(BPow2(e), n)
        up == \/ 2 * qr.r > n
              \/ 2 * qr.r = n /\ qr.q[1] % 2 = 1
        q  == IF up THEN BAdd(qr.q, <<1, 0, 0>>) ELSE qr.q
    IN  BMulSmall(q, Pow2(FracBits - e))

(***************************************************************************)
(* The universe of agent objects. An agent is identified by its unique_id; *)
(* its class is fixed when the object is built (agent.py: agent_type =     *)
(* self.__class__). Two classes are used:                                   *)
(*   T1  derives from Agent and defines step and advance;                   *)
(*   T2  defines step only; t2_base says whether it derives from Agent     *)
(*       (and so inherits Agent.advance, a no-op) or is a plain object      *)
(*       with no advance attribute at all.                                  *)
(***************************************************************************)
Agents == 1..MaxAgents
Types == {"T1", "T2"}
\* the meta agents: unique_ids above those of the plain agents
MetaAgents == (MaxAgents + 1)..(MaxAgents + MaxMetas)
TypeOf(a) == IF a > MaxAgents THEN "MetaAgent"
             ELSE IF a % 2 = 1 THEN "T1" ELSE "T2"

\* the agents used with the DiscreteEventScheduler
EventAgents == 1..MaxEventAgents

Kinds == {"Base", "Random", "Simultaneous", "Staged", "DiscreteEvent"}

\* agent_order as given to BaseScheduler.__init__; <<>> stands for None and
\* for the empty list, which `if self.agent_order:` does not tell apart
OrderChoices == {<<>>, <<"T1", "T2">>, <<"T2", "T1">>, <<"T1">>, <<"T2", "T2">>}

\* time_step as given to DiscreteEventScheduler.__init__ (default 1)
TimeSteps == 0..MaxTimeStep

\* the seeds tried: one where the scheduler never draws from model.random
Seeds(k, shuffling) ==
    IF k \in {"Random", "DiscreteEvent"} \/ (k = "Staged" /\ shuffling)
    THEN 0..MaxSeed ELSE {0}

\* (stage_list, shuffle, shuffle_between_stages) as given to
\* StagedActivation.__init__ (stage_list None becomes ["step"]): the default
\* list and a list with a model-level stage, each unshuffled and fully
\* shuffled, and a two-stage list under every combination of the flags
StagedConfigs ==
    ({<<"step">>, <<"a", "model.m", "b">>} \X {<<FALSE, FALSE>>, <<TRUE, TRUE>>})
    \cup ({<<"a", "b">>} \X (BOOLEAN \X BOOLEAN))

VARIABLES
    kind,                   \* the scheduler class in use
    agent_order,            \* BaseScheduler.agent_order
    stage_list,             \* StagedActivation.stage_list
    shuffle,                \* StagedActivation.shuffle
    shuffle_between_stages, \* StagedActivation.shuffle_between_stages
    stage_time,             \* StagedActivation.stage_time
    time_step,              \* DiscreteEventScheduler.time_step
    t2_base,                \* "Agent" or "object": the base class of T2
    steps,                  \* BaseScheduler.steps
    time,                   \* BaseScheduler.time
    agents_by_type,         \* the registry: sequence of [type, agents] buckets
    random,                 \* state of Model.random
    event_queue,            \* DiscreteEventScheduler.event_queue (a heapq list)
    pc,                     \* where step() is: "idle", "do_each", "model_stage", "des_loop"
    phase,                  \* index of the pass (or stage) of the running step
    agent_keys,             \* the list do_each iterates
    idx,                    \* position of do_each in agent_keys
    end_time,               \* the local end_time of DiscreteEventScheduler.step
    pending,                \* staged agents: self.pending
    value,                  \* staged agents: self.value
    insertion,              \* the live agents in the order they were registered
    log,                    \* what the running (or last) step did, in order
    begun,                  \* the number of step() calls made so far
    steps0,                 \* steps when the running (or last) step began
    time0,                  \* time when the running (or last) step began
    keys0,                  \* the list of the first pass of the step
    live0,                  \* the agents registered when the step began
    random0,                \* random when the running (or last) step began
    value0,                 \* what a staged agent observed when the step began
    replicas,               \* replay: the two models driven side by side
    model_seed,             \* Model._seed
    capacity,               \* how many events the queue may hold in this run
    current_id,             \* Model.current_id
    issued,                 \* the values next_id() has returned, in order
    queue0,                 \* event_queue when the running (or last) step began,
                            \* kept until the next operation on the scheduler
    last,                   \* the last operation: "init", "registry", "scheduled",
                            \* "running" (a step is under way), "returned" (a
                            \* step returned) or the error that it raised
    metas,                  \* the MetaAgents created so far
    components,             \* MetaAgent._components of each meta agent, in order
    added,                  \* per meta agent: the agents given to it (at creation
                            \* or by add_component) and not removed since
    result                  \* the value the last agg("power", sum) returned

settings == <<kind, agent_order, stage_list, shuffle, shuffle_between_stages,
              stage_time, time_step, t2_base, replicas, model_seed,
              capacity>>
meta == <<metas, components, added, result>>
config == <<settings, current_id, issued, meta>>
clock == <<steps, time>>
data == <<pending, value>>
entry == <<begun, steps0, time0, keys0, live0, random0, value0>>
history == <<entry, queue0>>

\* an operation between steps: what was recorded at the entry of the last
\* step(), and its local end_time, are gone
forget_entry ==
    /\ steps0' = 0
    /\ time0' = 0
    /\ live0' = {}
    /\ random0' = 0
    /\ end_time' = 0
    /\ UNCHANGED <<begun, keys0, value0>>

vars == <<kind, agent_order, stage_list, shuffle, shuffle_between_stages,
          stage_time, time_step, t2_base, steps, time, agents_by_type, random,
          event_queue, pc, phase, agent_keys, idx, end_time, pending, value,
          insertion, log, begun, steps0, time0, keys0, live0, random0, value0,
          replicas, model_seed, capacity, current_id, issued, queue0, last,
          metas, components, added, result>>

(***************************************************************************)
(* Sequence helpers.                                                       *)
(***************************************************************************)
RECURSIVE Concat(_)
Concat(ss) == IF ss = <<>> THEN <<>> ELSE Head(ss) \o Concat(Tail(ss))

Range(s) == {s[i] : i \in 1..Len(s)}

Without(s, x) == SelectSeq(s, LAMBDA y : y # x)

Swap(s, i, j) == [s EXCEPT ![i] = s[j], ![j] = s[i]]

RECURSIVE SumOver(_, _)
SumOver(f, S) ==
    IF S = {} THEN 0
    ELSE LET a == CHOOSE x \in S : TRUE IN f[a] + SumOver(f, S \ {a})

(***************************************************************************)
(* The registry, model.agents_by_type: a mapping from agent type to the    *)
(* ordered collection of live agents of that type, keyed by unique_id.     *)
(* It is a dict of dicts, so both levels iterate in insertion order.       *)
(***************************************************************************)
\* a chain that stops after the first bucket (variant of chain_values)
first_values(abt) == IF abt = <<>> THEN <<>> ELSE abt[1].agents

\* chain.from_iterable(abt.values()): the keys of every bucket, bucket by bucket
chain_values(abt) == Concat([i \in 1..Len(abt) |-> abt[i].agents])

\* abt.get(t, []): the keys of the bucket of type t
bucket_get(abt, t) ==
    IF \E i \in 1..Len(abt) : abt[i].type = t
    THEN abt[CHOOSE i \in 1..Len(abt) : abt[i].type = t].agents
    ELSE <<>>

\* do_each's lookup: is agent_key in some bucket
registered(abt, key) == \E i \in 1..Len(abt) : key \in Range(abt[i].agents)

\* registration of agent a under its class; a new class gets a new bucket last
register(abt, a) ==
    IF \E i \in 1..Len(abt) : abt[i].type = TypeOf(a)
    THEN [i \in 1..Len(abt) |->
            IF abt[i].type = TypeOf(a)
            THEN [abt[i] EXCEPT !.agents = Append(@, a)]
            ELSE abt[i]]
    ELSE Append(abt, [type |-> TypeOf(a), agents |-> <<a>>])

\* removal of agent a; its bucket stays, possibly empty
deregister(abt, a) ==
    [i \in 1..Len(abt) |-> [abt[i] EXCEPT !.agents = Without(@, a)]]

Live == Range(chain_values(agents_by_type))

\* BaseScheduler.agents: list(chain.from_iterable(agents_by_type.values()))
scheduler_agents == chain_values(agents_by_type)

(***************************************************************************)
(* Model.random: a deterministic stream fixed by the seed. The generator   *)
(* is abstracted to a state in 0..RngMod-1 advanced by every draw.         *)
(***************************************************************************)
\* random.Random(seed)
seed_random(seed) == seed % RngMod

\* the generator's state after one draw
advance_random(s) == (s + 1) % RngMod

\* random.random(): the value drawn, read off the state after the draw
random_value(s) == advance_random(s)

\* randbelow(n): a value in 0..n-1, read off the state after the draw
randbelow(s, n) == advance_random(s) % n

\* random.shuffle(x): for i from len-1 down to 1, swap x[i] and x[randbelow(i+1)]
RECURSIVE shuffle_from(_, _, _)
shuffle_from(x, i, s) ==
    IF i < 2 THEN [keys |-> x, rng |-> s]
    ELSE shuffle_from(Swap(x, i, randbelow(s, i) + 1), i - 1, advance_random(s))

random_shuffle(x, s) == shuffle_from(x, Len(x), s)

(***************************************************************************)
(* BaseScheduler.get_agent_keys and the key list do_each builds for itself *)
(***************************************************************************)
\* the listed buckets, last listed first
ordered_keys_backwards(abt, order) ==
    Concat([i \in 1..Len(order) |-> bucket_get(abt, order[Len(order) + 1 - i])])

\* get_agent_keys with agent_order: the buckets of the listed types, in the
\* order listed
ordered_keys(abt, order) ==
    Concat([i \in 1..Len(order) |-> bucket_get(abt, order[i])])

\* get_agent_keys(shuffle) on registry abt and stream state rng: the keys and
\* the state of the stream afterwards
get_agent_keys(abt, rng, sh) ==
    LET all_keys == IF agent_order # <<>>
                    THEN ordered_keys(abt, agent_order)
                    ELSE chain_values(abt)
    IN  IF sh THEN random_shuffle(all_keys, rng)
        ELSE [keys |-> all_keys, rng |-> rng]

\* do_each(method, agent_keys=None, shuffle): the list it builds and iterates
do_each_keys(abt, rng, sh) ==
    IF agent_order # <<>>
    THEN get_agent_keys(abt, rng, FALSE)
    ELSE IF sh THEN random_shuffle(chain_values(abt), rng)
         ELSE [keys |-> chain_values(abt), rng |-> rng]

(***************************************************************************)
(* Behaviour methods. getattr(agent, method) succeeds unless the method is *)
(* "advance" and the agent's class neither defines it nor inherits         *)
(* Agent.advance.                                                          *)
(***************************************************************************)
\* a scheduler that never meets a missing method (variant of has_method)
has_any_method(a, m) == TRUE

has_method(a, m) ==
    m = "advance" => (TypeOf(a) = "T1" \/ t2_base = "Agent")

\* stage.startswith("model.") on the stage names in use
is_model_stage(stage) == stage \in {"model.m"}

\* a StagedActivation that walks stage_list from its end (variant of
\* current_method)
reversed_stage_method ==
    CASE kind \in {"Base", "Random", "DiscreteEvent"} -> "step"
      [] kind = "Simultaneous" -> IF phase = 1 THEN "step" ELSE "advance"
      [] kind = "Staged" -> stage_list[Len(stage_list) + 1 - phase]

\* the two passes of SimultaneousActivation in the opposite order (variant of
\* current_method)
swapped_method ==
    CASE kind \in {"Base", "Random", "DiscreteEvent"} -> "step"
      [] kind = "Simultaneous" -> IF phase = 1 THEN "advance" ELSE "step"
      [] kind = "Staged" -> stage_list[phase]

\* the method the running pass invokes
current_method ==
    CASE kind \in {"Base", "Random", "DiscreteEvent"} -> "step"
      [] kind = "Simultaneous" -> IF phase = 1 THEN "step" ELSE "advance"
      [] kind = "Staged" -> stage_list[phase]

\* The agents of class T1 stage a change in step and apply it in advance:
\* step sets self.pending from the values it observes on the staged agents,
\* advance sets self.value = self.pending. Class T2 keeps no such state.
Staged == {a \in Agents : TypeOf(a) = "T1"}

observe(v) == SumOver(v, Staged)

staged_pending(a, m) ==
    IF kind = "Simultaneous" /\ m = "step" /\ a \in Staged
    THEN [pending EXCEPT ![a] = 1 + observe(value)]
    ELSE pending

staged_value(a, m) ==
    IF kind = "Simultaneous" /\ m = "advance" /\ a \in Staged
    THEN [value EXCEPT ![a] = pending[a]]
    ELSE value

(***************************************************************************)
(* What a behaviour method (or a model-level stage method) may do to the   *)
(* registry while it runs: nothing, remove a registered agent, or register *)
(* an agent that is not registered. At most MaxMut such changes per step.  *)
(***************************************************************************)
Entry(op, key, method) == [op |-> op, key |-> key, method |-> method]

Mutations(e) == SelectSeq(e, LAMBDA x : x.op \in {"add", "remove"})

Calls(e) == SelectSeq(e, LAMBDA x : x.op = "call")

registry_changes ==
    {Entry("none", 0, "-")}
    \cup (IF Len(Mutations(log)) < MaxMut
          THEN {Entry("remove", b, "-") : b \in Live}
               \cup {Entry("add", b, "-") : b \in Agents \ Live}
          ELSE {})

apply_change(abt, m) ==
    CASE m.op = "none" -> abt
      [] m.op = "remove" -> deregister(abt, m.key)
      [] m.op = "add" -> register(abt, m.key)

apply_insertion(ins, m) ==
    CASE m.op = "none" -> ins
      [] m.op = "remove" -> Without(ins, m.key)
      [] m.op = "add" -> Append(ins, m.key)

logged(m) == IF m.op = "none" THEN <<>> ELSE <<m>>

(***************************************************************************)
(* Construction: Model(seed=...), the scheduler's __init__.                *)
(***************************************************************************)
\* a step() that leaves the counter alone (variant of count_step)
count_step_skipped(s) == s

\* self.steps += 1
count_step(s) == s + 1

\* self.time += 1
tick(t) == t + 1

\* a do_each that iterates the live registry instead of its list (variant of
\* pass_keys)
live_keys == do_each_keys(agents_by_type, random, FALSE).keys

\* the list do_each is iterating
pass_keys == agent_keys

\* a do_each that does not look the agent up before the call (variant of
\* lookup)
lookup_always(abt, key) == TRUE

\* do_each: `if agent_key in agents` over the buckets, just before the call
lookup(abt, key) == registered(abt, key)

construct ==
    /\ kind \in Kinds
    /\ agent_order \in (IF kind \in {"Base", "Random"} THEN OrderChoices
                        ELSE {<<>>})
    /\ \E c \in (IF kind = "Staged" THEN StagedConfigs
                 ELSE {<<<<"step">>, <<FALSE, FALSE>>>>}) :
          /\ stage_list = c[1]
          /\ shuffle = c[2][1]
          /\ shuffle_between_stages = c[2][2]
    /\ stage_time = FDivOne(Len(stage_list))
    /\ time_step \in (IF kind = "DiscreteEvent" THEN TimeSteps ELSE {1})
    /\ t2_base \in (IF kind = "Simultaneous" THEN {"Agent", "object"} ELSE {"Agent"})
    /\ steps = 0
    \* StagedActivation's clock is held as a float from the start (0 == 0.0)
    /\ time = IF kind = "Staged" THEN BZero ELSE 0
    /\ agents_by_type = <<>>
    /\ model_seed \in Seeds(kind, shuffle \/ shuffle_between_stages)
    /\ random = seed_random(model_seed)
    /\ event_queue = <<>>
    /\ pc = "idle"
    /\ phase = 1
    /\ agent_keys = <<>>
    /\ idx = 1
    /\ end_time = 0
    /\ pending = [a \in Staged |-> 0]
    /\ value = [a \in Staged |-> 0]
    /\ insertion = <<>>
    /\ log = <<>>
    /\ begun = 0
    /\ steps0 = 0
    /\ time0 = time
    /\ keys0 = <<>>
    /\ live0 = {}
    /\ random0 = random
    /\ value0 = observe(value)
    /\ queue0 = <<>>
    \* Model.__init__: self.current_id = 0
    /\ current_id = 0
    /\ issued = <<>>
    /\ last = "init"
    \* no MetaAgent has been created
    /\ metas = {}
    /\ components = [m \in MetaAgents |-> <<>>]
    /\ added = [m \in MetaAgents |-> {}]
    /\ result = 0

Init ==
    /\ construct
    /\ replicas = <<>>
    /\ capacity = MaxQueue

(***************************************************************************)
(* Registration and removal of an agent between steps.                     *)
(***************************************************************************)
register_agent(a) ==
    /\ pc = "idle"
    /\ kind # "DiscreteEvent"
    /\ a \notin Live
    /\ agents_by_type' = register(agents_by_type, a)
    /\ insertion' = Append(insertion, a)
    /\ log' = <<>>
    /\ last' = "registry"
    /\ UNCHANGED <<config, clock, random, event_queue, pc, phase, agent_keys,
                   idx, end_time, data, history>>

remove_agent(a) ==
    /\ pc = "idle"
    /\ a \in Live
    /\ agents_by_type' = deregister(agents_by_type, a)
    /\ insertion' = Without(insertion, a)
    /\ log' = <<>>
    /\ last' = "registry"
    /\ queue0' = <<>>
    /\ UNCHANGED <<config, clock, random, event_queue, pc, phase, agent_keys,
                   idx, end_time, data, entry>>

(***************************************************************************)
(* BaseScheduler.step, RandomActivation.step, SimultaneousActivation.step, *)
(* StagedActivation.step: the entry of step() up to the first invocation.  *)
(***************************************************************************)
\* every stage is dispatched to the agents (variant of stage_pc)
stage_pc_agents(stage) == "do_each"

\* StagedActivation.step: `if stage.startswith("model.")` decides whether the
\* model method or do_each runs the stage
stage_pc(stage) == IF is_model_stage(stage) THEN "model_stage" ELSE "do_each"

first_keys ==
    CASE kind = "Base" -> do_each_keys(agents_by_type, random, FALSE)
      [] kind = "Random" -> do_each_keys(agents_by_type, random, TRUE)
      [] kind = "Simultaneous" -> do_each_keys(agents_by_type, random, FALSE)
      [] kind = "Staged" -> get_agent_keys(agents_by_type, random, shuffle)

step_begin ==
    /\ pc = "idle"
    /\ kind # "DiscreteEvent"
    /\ begun < MaxSteps
    /\ begun' = begun + 1
    /\ agent_keys' = first_keys.keys
    /\ random' = first_keys.rng
    /\ pc' = IF kind = "Staged" THEN stage_pc(stage_list[1]) ELSE "do_each"
    /\ phase' = 1
    /\ idx' = 1
    /\ log' = <<>>
    /\ steps0' = steps
    /\ time0' = time
    /\ keys0' = first_keys.keys
    /\ live0' = Live
    /\ random0' = random
    /\ value0' = observe(value)
    /\ last' = "running"
    /\ UNCHANGED <<config, clock, agents_by_type, event_queue, end_time, data,
                   insertion, queue0>>

(***************************************************************************)
(* do_each: one turn of `for agent_key in agent_keys`.                     *)
(***************************************************************************)
\* the agent is in no bucket: nothing is invoked
skip ==
    /\ pc = "do_each"
    /\ idx <= Len(pass_keys)
    /\ ~lookup(agents_by_type, pass_keys[idx])
    /\ log' = Append(log, Entry("skip", pass_keys[idx], current_method))
    /\ idx' = idx + 1
    /\ UNCHANGED <<config, clock, agents_by_type, random, event_queue, pc,
                   phase, agent_keys, end_time, data, insertion, history, last>>

\* getattr(agents[agent_key], method)(): the behaviour runs
invoke ==
    /\ pc = "do_each"
    /\ idx <= Len(pass_keys)
    /\ lookup(agents_by_type, pass_keys[idx])
    /\ has_method(pass_keys[idx], current_method)
    /\ \E m \in registry_changes :
          /\ agents_by_type' = apply_change(agents_by_type, m)
          /\ insertion' = apply_insertion(insertion, m)
          /\ log' = Append(log, Entry("call", pass_keys[idx], current_method))
                       \o logged(m)
    /\ pending' = staged_pending(pass_keys[idx], current_method)
    /\ value' = staged_value(pass_keys[idx], current_method)
    /\ idx' = idx + 1
    /\ UNCHANGED <<config, clock, random, event_queue, pc, phase, agent_keys,
                   end_time, history, last>>

\* getattr raises AttributeError, which leaves step()
invoke_missing ==
    /\ pc = "do_each"
    /\ idx <= Len(pass_keys)
    /\ lookup(agents_by_type, pass_keys[idx])
    /\ ~has_method(pass_keys[idx], current_method)
    /\ log' = Append(log, Entry("raise", pass_keys[idx], current_method))
    /\ pc' = "idle"
    /\ last' = "AttributeError"
    /\ UNCHANGED <<config, clock, agents_by_type, random, event_queue, phase,
                   agent_keys, idx, end_time, data, insertion, history>>

(***************************************************************************)
(* The end of a pass, per scheduler.                                       *)
(***************************************************************************)
\* BaseScheduler.step and RandomActivation.step after do_each
step_end ==
    /\ pc = "do_each"
    /\ kind \in {"Base", "Random"}
    /\ idx > Len(pass_keys)
    /\ steps' = count_step(steps)
    /\ time' = tick(time)
    /\ pc' = "idle"
    /\ last' = "returned"
    /\ UNCHANGED <<config, agents_by_type, random, event_queue, phase,
                   agent_keys, idx, end_time, data, insertion, log, history>>

\* a second pass over the list of the first pass (variant of
\* simultaneous_advance)
simultaneous_advance_kept ==
    /\ pc = "do_each"
    /\ kind = "Simultaneous"
    /\ phase = 1
    /\ idx > Len(pass_keys)
    /\ agent_keys' = agent_keys
    /\ phase' = 2
    /\ idx' = 1
    /\ UNCHANGED <<config, clock, agents_by_type, random, event_queue, pc,
                   end_time, data, insertion, log, history, last>>

\* SimultaneousActivation.step between do_each("step") and do_each("advance")
simultaneous_advance ==
    /\ pc = "do_each"
    /\ kind = "Simultaneous"
    /\ phase = 1
    /\ idx > Len(pass_keys)
    /\ agent_keys' = do_each_keys(agents_by_type, random, FALSE).keys
    /\ phase' = 2
    /\ idx' = 1
    /\ UNCHANGED <<config, clock, agents_by_type, random, event_queue, pc,
                   end_time, data, insertion, log, history, last>>

\* SimultaneousActivation.step after do_each("advance")
simultaneous_end ==
    /\ pc = "do_each"
    /\ kind = "Simultaneous"
    /\ phase = 2
    /\ idx > Len(pass_keys)
    /\ steps' = count_step(steps)
    /\ time' = tick(time)
    /\ pc' = "idle"
    /\ last' = "returned"
    /\ UNCHANGED <<config, agents_by_type, random, event_queue, phase,
                   agent_keys, idx, end_time, data, insertion, log, history>>

\* StagedActivation.step after a stage: the keys are recomputed on registry
\* abt, the clock advances by stage_time, and the next stage (or the end of
\* the step) follows
staged_after_stage(abt) ==
    LET k == get_agent_keys(abt, random, shuffle_between_stages) IN
    /\ agent_keys' = k.keys
    /\ random' = k.rng
    /\ time' = FAdd(time, stage_time)
    /\ idx' = 1
    /\ IF phase < Len(stage_list)
       THEN /\ phase' = phase + 1
            /\ pc' = stage_pc(stage_list[phase + 1])
            /\ UNCHANGED <<steps, last>>
       ELSE /\ steps' = count_step(steps)
            /\ pc' = "idle"
            /\ last' = "returned"
            /\ UNCHANGED phase

staged_stage_end ==
    /\ pc = "do_each"
    /\ kind = "Staged"
    /\ idx > Len(pass_keys)
    /\ staged_after_stage(agents_by_type)
    /\ UNCHANGED <<config, agents_by_type, event_queue, end_time, data,
                   insertion, log, history>>

\* a stage "model.<name>": getattr(self.model, stage[6:])()
staged_model_stage ==
    /\ pc = "model_stage"
    /\ \E m \in registry_changes :
          /\ agents_by_type' = apply_change(agents_by_type, m)
          /\ insertion' = apply_insertion(insertion, m)
          /\ log' = Append(log, Entry("model", 0, stage_list[phase])) \o logged(m)
          /\ staged_after_stage(apply_change(agents_by_type, m))
    /\ UNCHANGED <<config, event_queue, end_time, data, history>>

(***************************************************************************)
(* DiscreteEventScheduler: the event queue is a heapq list of tuples       *)
(* (time, random_value, agent), compared as Python compares tuples.        *)
(***************************************************************************)
Event(t, r, a) == [time |-> t, draw |-> r, agent |-> a]

\* e1 < e2 on tuples: the first differing position decides; two distinct
\* agents have no order (TypeError), the same agent twice is an equal tuple
tuple_lt(e1, e2) ==
    IF e1.time # e2.time THEN (IF e1.time < e2.time THEN "lt" ELSE "ge")
    ELSE IF e1.draw # e2.draw THEN (IF e1.draw < e2.draw THEN "lt" ELSE "ge")
    ELSE IF e1.agent = e2.agent THEN "ge"
    ELSE "TypeError"

\* heapq._siftdown(heap, 0, pos): move heap[pos] up while it is less than
\* its parent
RECURSIVE siftdown(_, _)
siftdown(heap, pos) ==
    IF pos <= 1 THEN [heap |-> heap, err |-> FALSE]
    ELSE LET parentpos == pos \div 2
             cmp == tuple_lt(heap[pos], heap[parentpos])
         IN  IF cmp = "TypeError" THEN [heap |-> heap, err |-> TRUE]
             ELSE IF cmp = "ge" THEN [heap |-> heap, err |-> FALSE]
             ELSE siftdown(Swap(heap, pos, parentpos), parentpos)

\* heapq._siftup(heap, pos): move the smaller child up until a leaf is hit,
\* then sift the item down from there
RECURSIVE siftup(_, _)
siftup(heap, pos) ==
    IF 2 * pos > Len(heap) THEN siftdown(heap, pos)
    ELSE LET childpos == 2 * pos
             cmp == IF childpos + 1 <= Len(heap)
                    THEN tuple_lt(heap[childpos], heap[childpos + 1])
                    ELSE "lt"
             smaller == IF cmp = "lt" THEN childpos ELSE childpos + 1
         IN  IF cmp = "TypeError" THEN [heap |-> heap, err |-> TRUE]
             ELSE siftup(Swap(heap, pos, smaller), smaller)

\* heapq.heappush(heap, item)
heappush(heap, item) == siftdown(Append(heap, item), Len(heap) + 1)

\* heapq.heappop(heap) on a non-empty heap: the item returned and the heap left
heappop(heap) ==
    LET lastelt == heap[Len(heap)]
        rest == SubSeq(heap, 1, Len(heap) - 1)
    IN  IF rest = <<>>
        THEN [item |-> lastelt, heap |-> <<>>, err |-> FALSE]
        ELSE LET r == siftup([rest EXCEPT ![1] = lastelt], 1)
             IN  [item |-> heap[1], heap |-> r.heap, err |-> r.err]

\* the two ValueErrors, told apart by their messages
PastError == "ValueError: Scheduled time must be >= the current time"

DelayError == "ValueError: Delay must be non-negative"

\* a schedule_event that also refuses the current time (variant of
\* schedule_event)
schedule_event_strict(now, q, rng, t, a) ==
    IF t <= now
    THEN [queue |-> q, rng |-> rng, err |-> PastError]
    ELSE LET r == siftdown(Append(q, Event(t, random_value(rng), a)), Len(q) + 1)
         IN  [queue |-> r.heap, rng |-> advance_random(rng),
              err |-> IF r.err THEN "TypeError" ELSE "none"]

\* schedule_event(time, agent) on clock now, queue q and stream state rng:
\* the queue and the stream afterwards, and the error raised if any
schedule_event(now, q, rng, t, a) ==
    IF t < now
    THEN [queue |-> q, rng |-> rng, err |-> PastError]
    ELSE LET r == heappush(q, Event(t, random_value(rng), a))
         IN  [queue |-> r.heap, rng |-> advance_random(rng),
              err |-> IF r.err THEN "TypeError" ELSE "none"]

\* a schedule_in that takes the delay for the time of the event (variant of
\* schedule_in)
schedule_in_absolute(now, q, rng, delay, a) ==
    IF delay < 0
    THEN [queue |-> q, rng |-> rng, err |-> DelayError]
    ELSE schedule_event(now, q, rng, delay, a)

\* schedule_in(delay, agent)
schedule_in(now, q, rng, delay, a) ==
    IF delay < 0
    THEN [queue |-> q, rng |-> rng, err |-> DelayError]
    ELSE schedule_event(now, q, rng, now + delay, a)

outcome(err) == IF err = "none" THEN "scheduled" ELSE err

\* DiscreteEventScheduler.add(agent, schedule_now)
add(a, schedule_now) ==
    /\ pc = "idle"
    /\ kind = "DiscreteEvent"
    /\ a \in EventAgents
    /\ a \notin Live
    /\ Len(event_queue) < capacity
    /\ agents_by_type' = register(agents_by_type, a)
    /\ insertion' = Append(insertion, a)
    /\ LET r == IF schedule_now
                THEN schedule_event(time, event_queue, random, time, a)
                ELSE [queue |-> event_queue, rng |-> random, err |-> "none"]
       IN  /\ event_queue' = r.queue
           /\ random' = r.rng
           /\ last' = IF r.err = "none" THEN "registry" ELSE r.err
    /\ log' = <<>>
    /\ queue0' = <<>>
    /\ forget_entry
    /\ UNCHANGED <<config, clock, pc, phase, agent_keys, idx, data>>

\* a call of schedule_event(t, a) between steps
call_schedule_event(t, a) ==
    /\ pc = "idle"
    /\ kind = "DiscreteEvent"
    /\ Len(event_queue) < capacity
    /\ LET r == schedule_event(time, event_queue, random, t, a)
       IN  /\ event_queue' = r.queue
           /\ random' = r.rng
           /\ last' = outcome(r.err)
    /\ log' = <<>>
    /\ queue0' = <<>>
    /\ forget_entry
    /\ UNCHANGED <<config, clock, agents_by_type, pc, phase, agent_keys, idx,
                   data, insertion>>

\* a call of schedule_in(delay, a) between steps
call_schedule_in(delay, a) ==
    /\ pc = "idle"
    /\ kind = "DiscreteEvent"
    /\ Len(event_queue) < capacity
    /\ LET r == schedule_in(time, event_queue, random, delay, a)
       IN  /\ event_queue' = r.queue
           /\ random' = r.rng
           /\ last' = outcome(r.err)
    /\ log' = <<>>
    /\ queue0' = <<>>
    /\ forget_entry
    /\ UNCHANGED <<config, clock, agents_by_type, pc, phase, agent_keys, idx,
                   data, insertion>>

\* Model.reset_randomizer() on the model of a DiscreteEventScheduler, between
\* steps: the stream restarts from the model's seed
reset_randomizer ==
    /\ pc = "idle"
    /\ kind = "DiscreteEvent"
    /\ random' = seed_random(model_seed)
    /\ log' = <<>>
    /\ last' = "reset"
    /\ queue0' = <<>>
    /\ forget_entry
    /\ UNCHANGED <<config, clock, agents_by_type, event_queue, pc, phase,
                   agent_keys, idx, data, insertion>>

\* get_next_event_time(): what it returns, None on an empty queue, else
\* event_queue[0][0]
get_next_event_time(q) ==
    IF q = <<>> THEN Entry("return", 0, "None")
    ELSE Entry("return", q[1].time, "time")

\* a call of get_next_event_time() between steps
call_get_next_event_time ==
    /\ pc = "idle"
    /\ kind = "DiscreteEvent"
    /\ log' = <<get_next_event_time(event_queue)>>
    /\ last' = "queried"
    /\ queue0' = <<>>
    /\ forget_entry
    /\ UNCHANGED <<config, clock, agents_by_type, random, event_queue, pc,
                   phase, agent_keys, idx, data, insertion>>

\* how many step() calls a run explores: a run whose queue may grow to
\* MaxHeap events registers few agents and can afford MaxQueueSteps calls,
\* enough to call step() again after each of two calls that raised
step_bound == IF capacity = MaxHeap THEN MaxQueueSteps ELSE MaxSteps

\* DiscreteEventScheduler.step: end_time = self.time + self.time_step
des_step_begin ==
    /\ pc = "idle"
    /\ kind = "DiscreteEvent"
    /\ begun < step_bound
    /\ begun' = begun + 1
    /\ end_time' = time + time_step
    /\ pc' = "des_loop"
    /\ log' = <<>>
    /\ steps0' = steps
    /\ time0' = time
    /\ live0' = Live
    /\ random0' = random
    /\ queue0' = event_queue
    /\ last' = "running"
    /\ UNCHANGED <<config, clock, agents_by_type, random, event_queue, phase,
                   agent_keys, idx, data, insertion, keys0, value0>>

\* the loop test: self.event_queue and self.event_queue[0][0] <= end_time
event_due == event_queue # <<>> /\ event_queue[1].time <= end_time

\* what the step behaviour of a discrete-event agent may do: nothing, remove
\* a registered agent, or schedule its own next event after a delay
des_effects(a) ==
    {Entry("none", 0, "-")}
    \cup (IF Len(Mutations(log)) < MaxMut
          THEN {Entry("remove", b, "-") : b \in Live}
          ELSE {})
    \cup (IF Len(event_queue) <= capacity /\ Len(Calls(log)) < MaxCalls
          THEN {Entry("schedule_in", d, "-") : d \in 0..MaxDelay}
          ELSE {})

\* the clock is left where it was (variant of clock_at)
clock_kept(item) == time

\* self.time = time: the clock while the popped event is executed
clock_at(item) == item.time

\* one turn of the loop for an event whose agent is registered: pop, advance
\* the clock to the event's time, agent.step()
des_invoke ==
    /\ pc = "des_loop"
    /\ event_due
    /\ LET p == heappop(event_queue) IN
       /\ ~p.err
       /\ lookup(agents_by_type, p.item.agent)
       /\ time' = clock_at(p.item)
       /\ \E m \in des_effects(p.item.agent) :
             LET r == IF m.op = "schedule_in"
                      THEN schedule_in(clock_at(p.item), p.heap, random, m.key,
                                       p.item.agent)
                      ELSE [queue |-> p.heap, rng |-> random, err |-> "none"]
             IN  /\ event_queue' = r.queue
                 /\ random' = r.rng
                 /\ agents_by_type' =
                       IF m.op = "remove" THEN deregister(agents_by_type, m.key)
                       ELSE agents_by_type
                 /\ insertion' =
                       IF m.op = "remove" THEN Without(insertion, m.key)
                       ELSE insertion
                 /\ log' = Append(log, Entry("call", p.item.agent, "step"))
                              \o logged(m)
                 /\ pc' = IF r.err = "none" THEN "des_loop" ELSE "idle"
                 /\ last' = IF r.err = "none" THEN last ELSE r.err
    /\ UNCHANGED <<config, steps, phase, agent_keys, idx, end_time, data,
                   history>>

\* one turn of the loop in which nothing is invoked: the agent of the popped
\* event is not registered, or heappop itself raises TypeError (it compared
\* two distinct agents), which leaves step()
des_skip ==
    /\ pc = "des_loop"
    /\ event_due
    /\ LET p == heappop(event_queue) IN
       /\ p.err \/ ~lookup(agents_by_type, p.item.agent)
       /\ event_queue' = p.heap
       /\ IF p.err
          THEN /\ log' = Append(log, Entry("raise", p.item.agent, "heappop"))
               /\ pc' = "idle"
               /\ last' = "TypeError"
               /\ UNCHANGED time
          ELSE /\ log' = Append(log, Entry("skip", p.item.agent, "step"))
               /\ time' = clock_at(p.item)
               /\ UNCHANGED <<pc, last>>
    /\ UNCHANGED <<config, steps, agents_by_type, random, phase, agent_keys,
                   idx, end_time, data, insertion, history>>

\* a step() that leaves the clock at the last event (variant of des_step_end)
des_step_end_at_event ==
    /\ pc = "des_loop"
    /\ ~event_due
    /\ steps' = count_step(steps)
    /\ pc' = "idle"
    /\ last' = "returned"
    /\ UNCHANGED <<config, time, agents_by_type, random, event_queue, phase,
                   agent_keys, idx, end_time, data, insertion, log, history>>

\* after the loop: self.time = end_time; self.steps += 1
des_step_end ==
    /\ pc = "des_loop"
    /\ ~event_due
    /\ time' = end_time
    /\ steps' = count_step(steps)
    /\ pc' = "idle"
    /\ last' = "returned"
    /\ UNCHANGED <<config, agents_by_type, random, event_queue, phase,
                   agent_keys, idx, end_time, data, insertion, log, history>>

(***************************************************************************)
(* The specification.                                                      *)
(***************************************************************************)
Next ==
    \/ \E a \in Agents : register_agent(a)
    \/ \E a \in Agents : remove_agent(a)
    \/ step_begin
    \/ skip
    \/ invoke
    \/ invoke_missing
    \/ step_end
    \/ simultaneous_advance
    \/ simultaneous_end
    \/ staged_stage_end
    \/ staged_model_stage
    \/ \E a \in EventAgents, now \in BOOLEAN : add(a, now)
    \/ \E t \in 0..MaxTime, a \in EventAgents : call_schedule_event(t, a)
    \/ \E d \in (-1)..MaxDelay, a \in EventAgents : call_schedule_in(d, a)
    \/ call_get_next_event_time
    \/ reset_randomizer
    \/ des_step_begin
    \/ des_invoke
    \/ des_skip
    \/ des_step_end

Spec == Init /\ [][Next]_vars

(***************************************************************************)
(* Behaviours that raise. do_each calls the behaviour with no try around   *)
(* the call, and neither has any step(): an exception raised by the        *)
(* behaviour, after whatever it did to the registry, leaves do_each and    *)
(* step().                                                                 *)
(***************************************************************************)
\* the exception is swallowed and the pass goes on (variant of invoke_raises)
invoke_raises_swallowed ==
    /\ pc = "do_each"
    /\ idx <= Len(pass_keys)
    /\ lookup(agents_by_type, pass_keys[idx])
    /\ has_method(pass_keys[idx], current_method)
    /\ \E m \in registry_changes :
          /\ agents_by_type' = apply_change(agents_by_type, m)
          /\ insertion' = apply_insertion(insertion, m)
          /\ log' = (Append(log, Entry("call", pass_keys[idx], current_method))
                        \o logged(m))
                    \o <<Entry("raised", pass_keys[idx], current_method)>>
    /\ idx' = idx + 1
    /\ UNCHANGED <<config, clock, random, event_queue, pc, phase, agent_keys,
                   end_time, data, history, last>>

\* getattr(agents[agent_key], method)() raises in the behaviour
invoke_raises ==
    /\ pc = "do_each"
    /\ idx <= Len(pass_keys)
    /\ lookup(agents_by_type, pass_keys[idx])
    /\ has_method(pass_keys[idx], current_method)
    /\ \E m \in registry_changes :
          /\ agents_by_type' = apply_change(agents_by_type, m)
          /\ insertion' = apply_insertion(insertion, m)
          /\ log' = (Append(log, Entry("call", pass_keys[idx], current_method))
                        \o logged(m))
                    \o <<Entry("raised", pass_keys[idx], current_method)>>
    /\ pc' = "idle"
    /\ last' = "Exception"
    /\ UNCHANGED <<config, clock, random, event_queue, phase, agent_keys, idx,
                   end_time, data, history>>

RaiseNext ==
    \/ Next
    \/ invoke_raises

SpecRaise == Init /\ [][RaiseNext]_vars

(***************************************************************************)
(* The queue on its own: events are scheduled and popped, no agent is      *)
(* registered, and the queue may grow to MaxHeap events, enough for        *)
(* heappop to compare two children.                                        *)
(***************************************************************************)
QueueInit ==
    /\ construct
    /\ kind = "DiscreteEvent"
    /\ time_step = MaxTimeStep
    /\ replicas = <<>>
    /\ capacity = MaxHeap

QueueNext ==
    \/ \E t \in 0..MaxTime, a \in EventAgents : call_schedule_event(t, a)
    \/ call_get_next_event_time
    \/ reset_randomizer
    \/ des_step_begin
    \/ des_skip
    \/ des_step_end

SpecQueue == QueueInit /\ [][QueueNext]_vars

(***************************************************************************)
(* Identifiers. Model.next_id() hands out the ids that agents are created  *)
(* with; agents come and go between the calls.                             *)
(***************************************************************************)
\* a next_id that returns the id after the counter and leaves the counter
\* alone (variant of next_id)
next_id_peeked(c) == [current_id |-> c, unique_id |-> c + 1]

\* Model.next_id(): self.current_id += 1; return self.current_id
next_id(c) == [current_id |-> c + 1, unique_id |-> c + 1]

\* a call of next_id() whose value is not used for an agent
call_next_id ==
    /\ pc = "idle"
    /\ Len(issued) < MaxIds
    /\ LET r == next_id(current_id)
       IN  /\ current_id' = r.current_id
           /\ issued' = Append(issued, r.unique_id)
    /\ UNCHANGED <<settings, meta, clock, agents_by_type, random, event_queue,
                   pc, phase, agent_keys, idx, end_time, data, insertion, log,
                   history, last>>

\* an agent is created with unique_id = model.next_id() and registered
create_agent ==
    /\ pc = "idle"
    /\ kind # "DiscreteEvent"
    /\ Len(issued) < MaxIds
    /\ LET r == next_id(current_id)
       IN  /\ r.unique_id \in Agents \ Live
           /\ current_id' = r.current_id
           /\ issued' = Append(issued, r.unique_id)
           /\ agents_by_type' = register(agents_by_type, r.unique_id)
           /\ insertion' = Append(insertion, r.unique_id)
    /\ log' = <<>>
    /\ last' = "registry"
    /\ UNCHANGED <<settings, meta, clock, random, event_queue, pc, phase,
                   agent_keys, idx, end_time, data, history>>

IdsInit ==
    /\ Init
    /\ kind = "Base"

IdsNext ==
    \/ call_next_id
    \/ create_agent
    \/ \E a \in Agents : remove_agent(a)

SpecIds == IdsInit /\ [][IdsNext]_vars

(***************************************************************************)
(* Meta agents. A MetaAgent is an agent of the model that holds other      *)
(* agents, its components, in an AgentSet. The AgentSet is an ordered      *)
(* collection without duplicate members.                                   *)
(***************************************************************************)
\* AgentSet(agents): the given agents in order, each kept once
RECURSIVE AgentSet(_)
AgentSet(cs) ==
    IF cs = <<>> THEN <<>>
    ELSE LET init == AgentSet(SubSeq(cs, 1, Len(cs) - 1))
             a == cs[Len(cs)]
         IN  IF a \in Range(init) THEN init ELSE Append(init, a)

\* AgentSet.add(agent)
AgentSet_add(s, a) == IF a \in Range(s) THEN s ELSE Append(s, a)

\* AgentSet.discard(agent): no error when the agent is not a member
AgentSet_discard(s, a) == Without(s, a)

\* the attribute "power" of the plain agents: 10, 20, 30 in creation order
power(a) == 10 * a

\* AgentSet.agg("power", sum): the attribute of every member, in order, handed
\* to the aggregator
RECURSIVE sum(_)
sum(values) == IF values = <<>> THEN 0 ELSE Head(values) + sum(Tail(values))

agg(s) == sum([i \in 1..Len(s) |-> power(s[i])])

\* the iterables a MetaAgent is created with
ComponentLists == {<<>>, <<1, 2, 3>>, <<1, 2>>, <<2, 3>>, <<2, 2>>}

meta_frame ==
    UNCHANGED <<settings, current_id, issued, clock, random, event_queue, pc,
                phase, agent_keys, idx, end_time, data, log, history>>

\* TestMetaAgent(model, components): Agent.__init__ registers the new agent
\* with the model, the components become an AgentSet, and power is computed
\* from them (0 without components)
create_meta_agent(m, cs) ==
    /\ pc = "idle"
    /\ kind = "Base"
    /\ m \in MetaAgents \ metas
    /\ \A n \in MetaAgents : n < m => n \in metas
    /\ metas' = metas \cup {m}
    /\ agents_by_type' = register(agents_by_type, m)
    /\ insertion' = Append(insertion, m)
    /\ components' = [components EXCEPT ![m] = AgentSet(cs)]
    /\ added' = [added EXCEPT ![m] = Range(cs)]
    /\ result' = IF AgentSet(cs) # <<>> THEN agg(AgentSet(cs)) ELSE 0
    /\ last' = "created"
    /\ meta_frame

\* the component is kept twice when it is already one
add_component_appended(m, a) ==
    /\ pc = "idle"
    /\ m \in metas
    /\ components' = [components EXCEPT ![m] = Append(@, a)]
    /\ added' = [added EXCEPT ![m] = @ \cup {a}]
    /\ last' = "component"
    /\ UNCHANGED <<metas, result, agents_by_type, insertion>>
    /\ meta_frame

\* the component is added to every meta agent
add_component_shared(m, a) ==
    /\ pc = "idle"
    /\ m \in metas
    /\ components' = [n \in MetaAgents |->
                         IF n \in metas THEN AgentSet_add(components[n], a)
                         ELSE components[n]]
    /\ added' = [added EXCEPT ![m] = @ \cup {a}]
    /\ last' = "component"
    /\ UNCHANGED <<metas, result, agents_by_type, insertion>>
    /\ meta_frame

\* MetaAgent.add_component(agent): self._components.add(agent)
add_component(m, a) ==
    /\ pc = "idle"
    /\ m \in metas
    /\ components' = [components EXCEPT ![m] = AgentSet_add(@, a)]
    /\ added' = [added EXCEPT ![m] = @ \cup {a}]
    /\ last' = "component"
    /\ UNCHANGED <<metas, result, agents_by_type, insertion>>
    /\ meta_frame

\* the component stays
remove_component_kept(m, a) ==
    /\ pc = "idle"
    /\ m \in metas
    /\ components' = components
    /\ added' = [added EXCEPT ![m] = @ \ {a}]
    /\ last' = "component"
    /\ UNCHANGED <<metas, result, agents_by_type, insertion>>
    /\ meta_frame

\* MetaAgent.remove_component(agent): self._components.discard(agent)
remove_component(m, a) ==
    /\ pc = "idle"
    /\ m \in metas
    /\ components' = [components EXCEPT ![m] = AgentSet_discard(@, a)]
    /\ added' = [added EXCEPT ![m] = @ \ {a}]
    /\ last' = "component"
    /\ UNCHANGED <<metas, result, agents_by_type, insertion>>
    /\ meta_frame

\* meta.power = meta.components.agg("power", sum)
call_agg(m) ==
    /\ pc = "idle"
    /\ m \in metas
    /\ result' = agg(components[m])
    /\ last' = "agg"
    /\ UNCHANGED <<metas, components, added, agents_by_type, insertion>>
    /\ meta_frame

MetaInit ==
    /\ Init
    /\ kind = "Base"
    /\ agent_order = <<>>

MetaNext ==
    \/ \E m \in MetaAgents, cs \in ComponentLists : create_meta_agent(m, cs)
    \/ \E m \in MetaAgents, a \in Agents : add_component(m, a)
    \/ \E m \in MetaAgents, a \in Agents : remove_component(m, a)
    \/ \E m \in MetaAgents : call_agg(m)
    \* the plain agents are created before the meta agents
    \/ \E a \in Agents : metas = {} /\ register_agent(a)
    \/ \E a \in Agents : remove_agent(a)

SpecMeta == MetaInit /\ [][MetaNext]_vars

(***************************************************************************)
(* Replay. Two models are built with the same arguments in two processes   *)
(* and driven by the same operations; the behaviours leave the registry    *)
(* and the queue alone, so every operation is the driver's. Each model is  *)
(* a record: its stream (Model.random), the state of its process's global  *)
(* generator (module random), its registry, and its scheduler's clock and  *)
(* queue; trace lists what each step() invoked.                            *)
(***************************************************************************)
\* Model.__new__: _seed = kwargs.get("seed"); without it the seed is drawn
\* from the process's global generator; self.random = random.Random(_seed)
Model_new(seeded, seed, global) ==
    LET _seed == IF seeded THEN seed ELSE random_value(global)
    IN  [seeded |-> seeded,
         global |-> IF seeded THEN global ELSE advance_random(global),
         random |-> seed_random(_seed),
         agents_by_type |-> <<>>,
         event_queue |-> <<>>,
         steps |-> 0,
         time |-> IF kind = "Staged" THEN BZero ELSE 0,
         begun |-> 0,
         trace |-> <<>>,
         last |-> "init"]

\* a generator of the process instead of the model's (variant of stream)
process_stream(m) == m.global

\* self.model.random: the generator every shuffle and draw uses
stream(m) == m.random

\* the calls do_each makes over keys on a registry nothing changes meanwhile
calls_of(abt, keys, method) ==
    LET found == SelectSeq(keys, LAMBDA k : lookup(abt, k))
    IN  [i \in 1..Len(found) |-> Entry("call", found[i], method)]

\* StagedActivation.step from stage i on, with the keys of that stage
RECURSIVE staged_stages(_, _, _, _)
staged_stages(m, keys, i, done) ==
    IF i > Len(stage_list)
    THEN [m EXCEPT !.steps = count_step(@), !.trace = Append(@, done),
                   !.last = "returned"]
    ELSE LET k == get_agent_keys(m.agents_by_type, stream(m),
                                 shuffle_between_stages)
             made == IF is_model_stage(stage_list[i])
                     THEN <<Entry("model", 0, stage_list[i])>>
                     ELSE calls_of(m.agents_by_type, keys, stage_list[i])
         IN  staged_stages([m EXCEPT !.random = k.rng,
                                     !.time = FAdd(@, stage_time)],
                           k.keys, i + 1, done \o made)

\* DiscreteEventScheduler.step: the loop over the events due by end_time
RECURSIVE des_events(_, _, _)
des_events(m, until, done) ==
    IF m.event_queue # <<>> /\ m.event_queue[1].time <= until
    THEN LET p == heappop(m.event_queue) IN
         IF p.err
         THEN [m EXCEPT !.event_queue = p.heap, !.trace = Append(@, done),
                        !.last = "TypeError"]
         ELSE des_events([m EXCEPT !.event_queue = p.heap,
                                   !.time = p.item.time],
                         until,
                         done \o calls_of(m.agents_by_type, <<p.item.agent>>,
                                          "step"))
    ELSE [m EXCEPT !.time = until, !.steps = count_step(@),
                   !.trace = Append(@, done), !.last = "returned"]

\* one step() of the scheduler of model m
scheduler_step(m) ==
    LET b == [m EXCEPT !.begun = @ + 1] IN
    CASE kind = "Random" ->
            LET k == do_each_keys(b.agents_by_type, stream(b), TRUE)
            IN  [b EXCEPT !.random = k.rng,
                          !.trace = Append(@, calls_of(b.agents_by_type,
                                                       k.keys, "step")),
                          !.steps = count_step(@),
                          !.time = tick(@),
                          !.last = "returned"]
      [] kind = "Staged" ->
            LET k == get_agent_keys(b.agents_by_type, stream(b), shuffle)
            IN  staged_stages([b EXCEPT !.random = k.rng], k.keys, 1, <<>>)
      [] kind = "DiscreteEvent" ->
            des_events(b, b.time + time_step, <<>>)

\* schedule_event(t, a) called on the scheduler of model m
model_schedule_event(m, t, a) ==
    LET r == schedule_event(m.time, m.event_queue, stream(m), t, a)
    IN  [m EXCEPT !.event_queue = r.queue, !.random = r.rng,
                  !.last = outcome(r.err)]

\* schedule_in(delay, a) called on the scheduler of model m
model_schedule_in(m, delay, a) ==
    LET r == schedule_in(m.time, m.event_queue, stream(m), delay, a)
    IN  [m EXCEPT !.event_queue = r.queue, !.random = r.rng,
                  !.last = outcome(r.err)]

\* agent a is registered with model m; with DiscreteEventScheduler.add its
\* first event is scheduled if schedule_now
model_register(m, a, schedule_now) ==
    LET n == [m EXCEPT !.agents_by_type = register(@, a), !.last = "registry"]
    IN  IF kind = "DiscreteEvent" /\ schedule_now
        THEN LET e == model_schedule_event(n, n.time, a)
             IN  [e EXCEPT !.last = IF @ = "scheduled" THEN "registry" ELSE @]
        ELSE n

\* agent a is removed from model m
model_remove(m, a) ==
    [m EXCEPT !.agents_by_type = deregister(@, a), !.last = "registry"]

ReplayKinds == {"Random", "Staged", "DiscreteEvent"}

ReplayAgents == IF kind = "DiscreteEvent" THEN EventAgents ELSE Agents

scheduler_vars ==
    <<kind, agent_order, stage_list, shuffle, shuffle_between_stages,
      stage_time, time_step, t2_base, steps, time, agents_by_type, random,
      event_queue, pc, phase, agent_keys, idx, end_time, pending, value,
      insertion, log, begun, steps0, time0, keys0, live0, random0, value0,
      model_seed, capacity, current_id, issued, queue0, last, metas,
      components, added, result>>

\* both processes build their model with the same arguments; the global
\* generator of the second process is in any state relative to the first's
ReplayInit ==
    /\ construct
    /\ capacity = MaxQueue
    /\ kind \in ReplayKinds
    /\ \E seeded \in BOOLEAN, seed \in 0..MaxSeed, g \in 0..(RngMod - 1) :
          replicas = <<Model_new(seeded, seed, 0), Model_new(seeded, seed, g)>>

replay_register(a, schedule_now) ==
    /\ a \in ReplayAgents
    /\ ~registered(replicas[1].agents_by_type, a)
    /\ Len(replicas[1].event_queue) < MaxQueue
    /\ replicas' = [i \in 1..2 |-> model_register(replicas[i], a, schedule_now)]
    /\ UNCHANGED scheduler_vars

replay_remove(a) ==
    /\ registered(replicas[1].agents_by_type, a)
    /\ replicas' = [i \in 1..2 |-> model_remove(replicas[i], a)]
    /\ UNCHANGED scheduler_vars

replay_schedule_event(t, a) ==
    /\ kind = "DiscreteEvent"
    /\ Len(replicas[1].event_queue) < MaxQueue
    /\ replicas' = [i \in 1..2 |-> model_schedule_event(replicas[i], t, a)]
    /\ UNCHANGED scheduler_vars

replay_schedule_in(delay, a) ==
    /\ kind = "DiscreteEvent"
    /\ Len(replicas[1].event_queue) < MaxQueue
    /\ replicas' = [i \in 1..2 |-> model_schedule_in(replicas[i], delay, a)]
    /\ UNCHANGED scheduler_vars

replay_step ==
    /\ replicas[1].begun < MaxSteps
    /\ replicas' = [i \in 1..2 |-> scheduler_step(replicas[i])]
    /\ UNCHANGED scheduler_vars

ReplayNext ==
    \/ \E a \in Agents, now \in BOOLEAN : replay_register(a, now)
    \/ \E a \in Agents : replay_remove(a)
    \/ \E t \in 0..MaxTime, a \in EventAgents : replay_schedule_event(t, a)
    \/ \E d \in (-1)..MaxDelay, a \in EventAgents : replay_schedule_in(d, a)
    \/ replay_step

SpecReplay == ReplayInit /\ [][ReplayNext]_vars

(***************************************************************************)
(* What the log of a step says.                                            *)
(***************************************************************************)
KeysOf(e) == [i \in 1..Len(e) |-> e[i].key]

\* the turns of do_each: one per entry of the list it iterates
Turns(e) == SelectSeq(e, LAMBDA x : x.op \in {"call", "skip", "raise"})

CallsOf(a, m) ==
    Len(SelectSeq(log, LAMBDA x : x.op = "call" /\ x.key = a /\ x.method = m))

\* the registered agents after the registry changes of e, starting from S
RECURSIVE LiveAfter(_, _)
LiveAfter(S, e) ==
    IF e = <<>> THEN S
    ELSE LiveAfter(CASE Head(e).op = "add" -> S \cup {Head(e).key}
                     [] Head(e).op = "remove" -> S \ {Head(e).key}
                     [] OTHER -> S,
                   Tail(e))

\* the agents registered when entry i of the log of the step happened
LiveAt(i) == LiveAfter(live0, SubSeq(log, 1, i - 1))

InvokedBefore(a, i) == \E j \in 1..(i - 1) : log[j].op = "call" /\ log[j].key = a

InvokedAfter(a, i) ==
    \E j \in (i + 1)..Len(log) : log[j].op = "call" /\ log[j].key = a

\* the list get_agent_keys enumerates before any shuffle
enumeration(abt) ==
    IF agent_order # <<>> THEN ordered_keys(abt, agent_order) ELSE chain_values(abt)

(***************************************************************************)
(* C1. BaseScheduler without agent_order: a step() whose behaviours leave  *)
(* the registry alone invokes "step" on every registered agent exactly     *)
(* once, in the order in which the agents were registered.                 *)
(***************************************************************************)
C1_InsertionOrder ==
    (kind = "Base" /\ agent_order = <<>> /\ last = "returned"
        /\ Mutations(log) = <<>>)
    => /\ KeysOf(Calls(log)) = insertion
       /\ \A i \in 1..Len(log) : log[i].op = "call" /\ log[i].method = "step"

(***************************************************************************)
(* C2 as stated. BaseScheduler pass: an agent removed by a behaviour       *)
(* before its turn is not invoked in the rest of the pass, no error is     *)
(* raised, and the agents of the snapshot that are never removed are       *)
(* invoked exactly once, in snapshot order.                                *)
(***************************************************************************)
C2_RemovedIsSkipped ==
    (kind = "Base" /\ agent_order = <<>>)
    => /\ \A i \in 1..Len(log) :
            (log[i].op = "remove" /\ ~InvokedBefore(log[i].key, i))
            => ~InvokedAfter(log[i].key, i)
       /\ last \in {"init", "registry", "running", "returned"}
       /\ last = "returned"
          => /\ KeysOf(Calls(log)) =
                   SelectSeq(keys0, LAMBDA a : CallsOf(a, "step") > 0)
             /\ \A a \in Range(keys0) :
                   (\A i \in 1..Len(log) :
                        ~(log[i].op = "remove" /\ log[i].key = a))
                   => CallsOf(a, "step") = 1

(***************************************************************************)
(* C2 amended. BaseScheduler pass: every entry of the snapshot gets one    *)
(* turn, in snapshot order; at its turn an agent that is not registered    *)
(* (removed and not registered again since) is skipped without error, and  *)
(* an agent that is registered is invoked.                                 *)
(***************************************************************************)
C2_SkippedWhileAbsent ==
    kind = "Base"
    => /\ KeysOf(Turns(log)) = SubSeq(keys0, 1, Len(Turns(log)))
       /\ \A i \in 1..Len(log) :
            /\ log[i].op = "skip" => log[i].key \notin LiveAt(i)
            /\ log[i].op = "call" => log[i].key \in LiveAt(i)
            /\ log[i].op # "raise"
       /\ last \in {"init", "registry", "running", "returned"}
       /\ last = "returned" => Len(Turns(log)) = Len(keys0)

\* a pass has returned in which an agent was removed before its turn and
\* skipped, and another agent was invoked after that
C2_Witness ==
    /\ kind = "Base"
    /\ last = "returned"
    /\ \E i, j, k \in 1..Len(log) :
          /\ i < j /\ j < k
          /\ log[i].op = "remove"
          /\ log[j].op = "skip" /\ log[j].key = log[i].key
          /\ log[k].op = "call"

(***************************************************************************)
(* C3 as stated. BaseScheduler pass: an agent registered by a behaviour    *)
(* during the pass is not invoked in that pass.                            *)
(***************************************************************************)
C3_AddedNotInvoked ==
    (kind = "Base" /\ agent_order = <<>>)
    => \A i \in 1..Len(log) :
          log[i].op = "add" => ~InvokedAfter(log[i].key, i)

(***************************************************************************)
(* C3 amended. BaseScheduler pass: the list is fixed before the first      *)
(* invocation; only agents of that list are invoked, so an agent that is   *)
(* registered during the pass and is not in the list is not invoked in     *)
(* that pass; without agent_order the list of a pass holds every agent     *)
(* registered when the pass begins.                                        *)
(***************************************************************************)
C3_ListFixed ==
    kind = "Base"
    => /\ pc = "do_each" => agent_keys = keys0
       /\ \A i \in 1..Len(log) :
            log[i].op = "call" => log[i].key \in Range(keys0)
       /\ \A i \in 1..Len(log) :
            (log[i].op = "add" /\ log[i].key \notin Range(keys0))
            => ~InvokedAfter(log[i].key, i)
       /\ (last \in {"running", "returned"} /\ agent_order = <<>>)
          => Range(keys0) = live0

\* a pass has returned in which an agent outside the list was registered
\* while invocations were still to come
C3_Witness ==
    /\ kind = "Base"
    /\ last = "returned"
    /\ \E i, k \in 1..Len(log) :
          /\ i < k
          /\ log[i].op = "add" /\ log[i].key \notin Range(keys0)
          /\ log[i].key \in Live
          /\ log[k].op = "call"

(***************************************************************************)
(* C4. Every scheduler: a step() that returns has increased steps by       *)
(* exactly 1; for BaseScheduler, RandomActivation and                      *)
(* SimultaneousActivation it has also increased time by exactly 1.         *)
(***************************************************************************)
C4_StepCounts ==
    last = "returned"
    => /\ steps = steps0 + 1
       /\ kind \in {"Base", "Random", "Simultaneous"} => time = time0 + 1

\* a second step() has returned after invoking agents
C4_Witness ==
    /\ last = "returned"
    /\ steps = 2
    /\ Calls(log) # <<>>

(***************************************************************************)
(* C5. With agent_order configured, a step() whose behaviours leave the    *)
(* registry alone invokes the behaviour once on every registered agent,    *)
(* none left out and none invoked twice, then adds 1 to steps and to time. *)
(***************************************************************************)
C5_OrderedInvokesAll ==
    (kind = "Base" /\ agent_order # <<>> /\ last = "returned"
        /\ Mutations(log) = <<>>)
    => /\ \A a \in Live : CallsOf(a, "step") = 1
       /\ steps = steps0 + 1
       /\ time = time0 + 1

(***************************************************************************)
(* C6. RandomActivation, in every configuration: the list of a step is the *)
(* enumeration shuffled with the model's stream at the start of that step. *)
(***************************************************************************)
C6_ShuffledEveryStep ==
    (kind = "Random" /\ pc = "do_each" /\ idx = 1 /\ log = <<>>)
    => LET sh == random_shuffle(enumeration(agents_by_type), random0)
       IN  /\ agent_keys = sh.keys
           /\ random = sh.rng

(***************************************************************************)
(* C7. Two models built with the same seed and driven by the same          *)
(* registrations, removals, schedule_event and schedule_in calls and       *)
(* step() calls invoke the same agents in the same order in every step,    *)
(* and their operations end alike; their streams stay in the same state.   *)
(***************************************************************************)
C7_SameSeedSameInvocations ==
    (replicas # <<>> /\ replicas[1].seeded /\ replicas[2].seeded)
    => /\ replicas[1].trace = replicas[2].trace
       /\ replicas[1].last = replicas[2].last
       /\ replicas[1].random = replicas[2].random
       /\ replicas[1].event_queue = replicas[2].event_queue

\* two seeded models in processes whose global generators differ have made
\* two steps that invoked the same three agents in two different orders
C7_Witness ==
    /\ replicas # <<>>
    /\ replicas[1].seeded
    /\ replicas[1].global # replicas[2].global
    /\ Len(replicas[1].trace) = 2
    /\ Len(replicas[1].trace[1]) = 3
    /\ Len(replicas[1].trace[2]) = 3
    /\ replicas[1].trace[1] # replicas[1].trace[2]
    /\ replicas[1].trace = replicas[2].trace

(***************************************************************************)
(* C8. SimultaneousActivation.step is two-phase: no "step" invocation      *)
(* follows an "advance" invocation of the same step(), so what an agent    *)
(* stages in "step" is computed from the values held when step() began;    *)
(* an agent that staged pending = x in "step" and applied it in "advance"  *)
(* has value = x when step() returns.                                      *)
(***************************************************************************)
C8_TwoPhase ==
    kind = "Simultaneous"
    => /\ \A i, j \in 1..Len(log) :
            (i < j /\ log[i].op = "call" /\ log[i].method = "advance")
            => ~(log[j].op = "call" /\ log[j].method = "step")
       /\ \A a \in Staged :
            CallsOf(a, "step") > 0 => pending[a] = 1 + value0
       /\ last = "returned"
          => \A a \in Staged :
                (CallsOf(a, "step") > 0 /\ CallsOf(a, "advance") > 0)
                => value[a] = 1 + value0

\* a step() has returned in which two staging agents, holding non-zero
\* values when it began, both ran "step" and "advance"
C8_Witness ==
    /\ kind = "Simultaneous"
    /\ last = "returned"
    /\ value0 > 0
    /\ \E a, b \in Staged :
          /\ a # b
          /\ CallsOf(a, "step") > 0 /\ CallsOf(a, "advance") > 0
          /\ CallsOf(b, "step") > 0 /\ CallsOf(b, "advance") > 0
          /\ value[a] = 1 + value0 /\ value[b] = 1 + value0

(***************************************************************************)
(* C9 as stated. SimultaneousActivation: an agent whose class does not     *)
(* define "advance" (class T2) is never tolerated: no step() returns       *)
(* having invoked "advance" on such an agent.                              *)
(***************************************************************************)
C9_MissingAdvanceIsError ==
    (kind = "Simultaneous" /\ last = "returned")
    => \A i \in 1..Len(log) :
          ~(log[i].op = "call" /\ log[i].method = "advance"
                /\ TypeOf(log[i].key) = "T2")

(***************************************************************************)
(* C9 amended. SimultaneousActivation: an object that has no "advance"     *)
(* attribute at all (a class that does not derive from Agent, whose        *)
(* advance is an inherited no-op) is never invoked for "advance"; the      *)
(* AttributeError is raised at its turn in the "advance" pass of step(),   *)
(* not at registration, and leaves step() before steps and time change.    *)
(***************************************************************************)
C9_ErrorAtInvocation ==
    kind = "Simultaneous"
    => /\ t2_base = "object"
          => \A i \in 1..Len(log) :
                ~(log[i].op = "call" /\ log[i].method = "advance"
                      /\ TypeOf(log[i].key) = "T2")
       /\ last \in {"init", "registry", "running", "returned", "AttributeError"}
       /\ last = "AttributeError"
          => /\ t2_base = "object"
             /\ log # <<>>
             /\ log[Len(log)].op = "raise"
             /\ log[Len(log)].method = "advance"
             /\ TypeOf(log[Len(log)].key) = "T2"
             /\ log[Len(log)].key \in LiveAt(Len(log))
             /\ pc = "idle"
             /\ steps = steps0
             /\ time = time0

\* step() has raised AttributeError at the turn of an object without
\* "advance", after "advance" was already invoked on another agent
C9_Witness ==
    /\ kind = "Simultaneous"
    /\ t2_base = "object"
    /\ last = "AttributeError"
    /\ \E i \in 1..Len(log) : log[i].op = "call" /\ log[i].method = "advance"

(***************************************************************************)
(* C10. StagedActivation: a full step() advances time by exactly 1 and     *)
(* steps by 1.                                                             *)
(***************************************************************************)
C10_StagedTime ==
    (kind = "Staged" /\ last = "returned")
    => /\ time = BAdd(time0, FromInt(1))
       /\ steps = steps0 + 1

(***************************************************************************)
(* C11. StagedActivation.step: the stages run in stage_list order and      *)
(* every invocation of a stage precedes every invocation of the stages     *)
(* after it: along the log of a step the position in stage_list of the     *)
(* method invoked never decreases, and the stage being run is the one      *)
(* whose turn it is.                                                       *)
(***************************************************************************)
StageOf(m) == CHOOSE n \in 1..Len(stage_list) : stage_list[n] = m

C11_StagesInOrder ==
    kind = "Staged"
    => /\ \A i \in 1..Len(log) :
            log[i].op \in {"call", "model"}
            => /\ \E n \in 1..Len(stage_list) : stage_list[n] = log[i].method
               /\ \A j \in 1..Len(log) :
                    (i < j /\ log[j].op \in {"call", "model"})
                    => StageOf(log[i].method) <= StageOf(log[j].method)
       /\ \A i \in 1..Len(log) :
            (last = "running" /\ log[i].op \in {"call", "model"})
            => StageOf(log[i].method) <= phase
       /\ last = "returned"
          => \A n \in 1..Len(stage_list) :
                is_model_stage(stage_list[n])
                => \E i \in 1..Len(log) :
                      log[i].op = "model" /\ log[i].method = stage_list[n]

\* a step of three stages has returned in which two agents ran the first
\* stage, the model ran the second and two agents ran the third
C11_Witness ==
    /\ kind = "Staged"
    /\ last = "returned"
    /\ Len(stage_list) = 3
    /\ \E a, b \in Agents :
          /\ a # b
          /\ CallsOf(a, stage_list[1]) = 1 /\ CallsOf(b, stage_list[1]) = 1
          /\ CallsOf(a, stage_list[3]) = 1 /\ CallsOf(b, stage_list[3]) = 1
    /\ \E i \in 1..Len(log) : log[i].op = "model"

(***************************************************************************)
(* What a queue holds.                                                     *)
(***************************************************************************)
\* how many times event e is in queue q
Count(q, e) == Cardinality({i \in 1..Len(q) : q[i] = e})

\* q2 is q1 with one more event e
OneMore(q1, q2, e) ==
    /\ Len(q2) = Len(q1) + 1
    /\ \A x \in Range(q1) \cup Range(q2) :
          Count(q2, x) = Count(q1, x) + (IF x = e THEN 1 ELSE 0)

\* the events of q due by time t
Due(q, t) == SelectSeq(q, LAMBDA e : e.time <= t)

\* a turn of the loop of DiscreteEventScheduler.step in which an event is
\* popped without heappop raising
Popped ==
    /\ pc = "des_loop"
    /\ Len(log') > Len(log)
    /\ \A i \in (Len(log) + 1)..Len(log') : log'[i].op # "raise"

\* DiscreteEventScheduler.step ends, by returning or by an exception
StepEnded ==
    /\ kind = "DiscreteEvent"
    /\ pc = "des_loop"
    /\ pc' = "idle"

(***************************************************************************)
(* C12. schedule_event(t, a) raises the ordering ValueError exactly when   *)
(* t is less than the clock (t equal to the clock is accepted); when it    *)
(* does, the queue, the clock, steps and the stream are unchanged; when    *)
(* the call succeeds the queue holds exactly one more event, (t, the draw  *)
(* taken from the stream, a), and the clock and steps are unchanged.       *)
(***************************************************************************)
C12_ScheduleEvent ==
    [][\A t \in 0..MaxTime, a \in EventAgents :
          call_schedule_event(t, a)
          => /\ (last' = PastError) <=> (t < time)
             /\ last' # DelayError
             /\ last' = PastError
                => UNCHANGED <<event_queue, time, steps, random>>
             /\ last' = "scheduled"
                => /\ OneMore(event_queue, event_queue',
                              Event(t, random_value(random), a))
                   /\ UNCHANGED <<time, steps>>]_vars

\* schedule_event was refused for a time in the past while an event was
\* queued
C12_Witness ==
    /\ kind = "DiscreteEvent"
    /\ last = PastError
    /\ time > 0
    /\ event_queue # <<>>

(***************************************************************************)
(* C13. schedule_in(delay, a) raises the delay ValueError when delay is    *)
(* negative and leaves the queue unchanged; for delay >= 0 it does to the  *)
(* queue and the stream what schedule_event(clock + delay, a) does, and    *)
(* raises neither ValueError.                                              *)
(***************************************************************************)
C13_ScheduleIn ==
    [][\A d \in (-1)..MaxDelay, a \in EventAgents :
          call_schedule_in(d, a)
          => /\ d < 0
                => /\ last' = DelayError
                   /\ UNCHANGED <<event_queue, time, steps, random>>
             /\ d >= 0
                => /\ last' \notin {DelayError, PastError}
                   /\ LET r == schedule_event(time, event_queue, random,
                                              time + d, a)
                      IN  /\ event_queue' = r.queue
                          /\ random' = r.rng
                          /\ last' = outcome(r.err)
                   /\ last' = "scheduled"
                      => OneMore(event_queue, event_queue',
                                 Event(time + d, random_value(random), a))]_vars

\* schedule_in was refused for a negative delay while an event was queued
C13_Witness ==
    /\ kind = "DiscreteEvent"
    /\ last = DelayError
    /\ event_queue # <<>>

(***************************************************************************)
(* C14. DiscreteEventScheduler.step with end_time = clock + time_step:     *)
(* every event popped is due (its time is at most end_time) and is the     *)
(* earliest of the queue, so the events are popped in non-decreasing order *)
(* of time, and the agent of a popped event is invoked when it is          *)
(* registered; when step() ends no event that is due is left in the queue, *)
(* and the events that were queued at its entry and are later than         *)
(* end_time are all still queued.                                          *)
(***************************************************************************)
C14_DueEventsInOrder ==
    [][/\ Popped
          => /\ time <= time'
             /\ time' <= end_time
             /\ \A i \in 1..Len(event_queue) : time' <= event_queue[i].time
             /\ \E i \in 1..Len(event_queue) :
                   /\ event_queue[i].time = time'
                   /\ event_queue[i].agent = log'[Len(log) + 1].key
             /\ (log'[Len(log) + 1].op = "call")
                <=> (log'[Len(log) + 1].key \in Live)
       /\ StepEnded
          => /\ \A i \in 1..Len(event_queue') :
                   event_queue'[i].time > end_time
             /\ \A e \in Range(queue0) :
                   e.time > end_time
                   => Count(event_queue', e) >= Count(queue0, e)]_vars

(***************************************************************************)
(* C15. When DiscreteEventScheduler.step returns, time is the clock at its *)
(* entry plus time_step, whether the queue was empty or no event fell on   *)
(* that boundary, and steps has increased by 1.                            *)
(***************************************************************************)
C15_ClockAtEndTime ==
    (kind = "DiscreteEvent" /\ last = "returned")
    => /\ time = time0 + time_step
       /\ steps = steps0 + 1

\* a step() has returned whose only events were earlier than its end_time
C15_Witness ==
    /\ kind = "DiscreteEvent"
    /\ last = "returned"
    /\ Calls(log) # <<>>
    /\ \A i \in 1..Len(queue0) : queue0[i].time < time0 + time_step
    /\ event_queue = <<>>

(***************************************************************************)
(* C16. get_next_event_time() returns the least time over the queued       *)
(* events, or None when the queue is empty; it raises nothing and leaves   *)
(* the queue, the clock and steps unchanged.                               *)
(***************************************************************************)
C16_NextEventTime ==
    [][call_get_next_event_time
       => /\ last' = "queried"
          /\ UNCHANGED <<event_queue, time, steps>>
          /\ Len(log') = 1
          /\ log'[1].op = "return"
          /\ IF event_queue = <<>>
             THEN log'[1].method = "None"
             ELSE /\ log'[1].method = "time"
                  /\ \A i \in 1..Len(event_queue) :
                        log'[1].key <= event_queue[i].time
                  /\ \E i \in 1..Len(event_queue) :
                        log'[1].key = event_queue[i].time]_vars

(***************************************************************************)
(* C17. add(a) with schedule_now puts exactly one event for a, at the      *)
(* current clock, in the queue; without schedule_now it leaves the queue   *)
(* unchanged; and a step() with time_step >= 0 has, when it ends, invoked  *)
(* every agent that had an event at the clock of its entry in the queue,   *)
(* as add leaves one, and stayed registered through the step.              *)
(***************************************************************************)
C17_AddSchedulesFirstEvent ==
    [][/\ \A a \in EventAgents :
             /\ add(a, TRUE)
                => OneMore(event_queue, event_queue',
                           Event(time, random_value(random), a))
             /\ add(a, FALSE) => UNCHANGED <<event_queue, random>>
             /\ (add(a, TRUE) \/ add(a, FALSE)) => a \in Live'
       /\ StepEnded
          => \A i \in 1..Len(queue0) :
                (/\ queue0[i].time = time0
                 /\ time_step >= 0
                 /\ queue0[i].agent \in live0
                 /\ \A j \in 1..Len(log') :
                       ~(log'[j].op = "remove" /\ log'[j].key = queue0[i].agent))
                => \E j \in 1..Len(log') :
                      log'[j] = Entry("call", queue0[i].agent, "step")]_vars

(***************************************************************************)
(* C18. Ordering the queue, on push or on pop, never compares two agents   *)
(* with each other: no operation on the queue ends in the TypeError that   *)
(* comparing two agents raises.                                            *)
(***************************************************************************)
C18_AgentsNeverCompared ==
    kind = "DiscreteEvent" => last # "TypeError"

C20_IdsStrictlyIncrease ==
    /\ \A i \in 1..Len(issued) : issued[i] = i
    /\ \A i, j \in 1..Len(issued) : i < j => issued[i] < issued[j]
    /\ current_id = Len(issued)
    /\ Live \subseteq Range(issued)

\* ids were handed out after the agent created with an earlier id was
\* removed, and an agent created with a later id is registered
C20_Witness ==
    /\ Len(issued) >= 3
    /\ last = "registry"
    /\ issued[1] \notin Live
    /\ issued[Len(issued)] \in Live
    /\ Len(insertion) = 1

(***************************************************************************)
(* C21. The registry, after any registrations and removals, between steps  *)
(* or by behaviours during a pass: the agents of all the buckets together  *)
(* are the live population, every live agent is in the bucket of its type  *)
(* and in no other, once; an agent registered again after its removal is   *)
(* there once.                                                             *)
(***************************************************************************)
C21_RegistryPartition ==
    /\ Range(scheduler_agents) = Range(insertion)
    /\ Len(scheduler_agents) = Cardinality(Range(insertion))
    /\ Len(insertion) = Cardinality(Range(insertion))
    /\ \A i \in 1..Len(agents_by_type) :
          /\ \A a \in Range(agents_by_type[i].agents) :
                TypeOf(a) = agents_by_type[i].type
          /\ \A j \in 1..Len(agents_by_type) :
                i # j => agents_by_type[i].type # agents_by_type[j].type

\* a behaviour has removed an agent of a type that has a second agent, and
\* a later behaviour of the same pass has registered it again
C21_Witness ==
    /\ last = "returned"
    /\ \E i, j \in 1..Len(log) :
          /\ i < j
          /\ log[i].op = "remove"
          /\ log[j].op = "add"
          /\ log[j].key = log[i].key
          /\ log[j].key \in Live
          /\ \E b \in Live : b # log[j].key /\ TypeOf(b) = TypeOf(log[j].key)
    /\ Len(agents_by_type) = 2

(***************************************************************************)
(* C22. AgentSet.agg("power", sum) returns the sum of power over exactly   *)
(* the current members of the set, the agents given to it and not removed  *)
(* since (60 for the members with power 10, 20 and 30, 50 once the member   *)
(* with power 10 is removed), and it returns 0 over an empty AgentSet.     *)
(***************************************************************************)
PowerOver(S) == SumOver([a \in Agents |-> power(a)], S)

C22_AggSumsMembers ==
    [][\A m \in MetaAgents :
          /\ call_agg(m) => result' = PowerOver(added[m])
          /\ call_agg(m) /\ components[m] = <<>> => result' = 0
          /\ \A cs \in ComponentLists :
                create_meta_agent(m, cs) => result' = PowerOver(Range(cs))
      ]_vars

C22_Witness ==
    /\ last = "agg"
    /\ result = 50
    /\ \E m \in metas : components[m] = <<2, 3>> /\ added[m] = {2, 3}

(***************************************************************************)
(* C23. After any sequence of add_component and remove_component calls the *)
(* components of a meta agent hold no agent twice and are exactly the      *)
(* agents added and not removed since. Adding an agent that is already a   *)
(* component leaves the length unchanged; removing a component decreases   *)
(* the length by one, the agent is no longer a member and all other        *)
(* members stay.                                                           *)
(***************************************************************************)
C23_ComponentsAreASet ==
    [][/\ \A m \in MetaAgents :
             /\ Len(components'[m]) = Cardinality(Range(components'[m]))
             /\ Range(components'[m]) = added'[m]
       /\ \A m \in MetaAgents, a \in Agents :
             /\ add_component(m, a) /\ a \in Range(components[m])
                => Len(components'[m]) = Len(components[m])
             /\ add_component(m, a) /\ a \notin Range(components[m])
                => components'[m] = Append(components[m], a)
             /\ remove_component(m, a) /\ a \in Range(components[m])
                => /\ Len(components'[m]) = Len(components[m]) - 1
                   /\ Range(components'[m]) = Range(components[m]) \ {a}
      ]_vars

C23_Witness ==
    /\ last = "component"
    /\ \E m \in metas : components[m] = <<2, 3, 1>> /\ added[m] = {1, 2, 3}
    /\ \E m \in metas : components[m] = <<2>>

IsPrefix(s, t) == Len(s) <= Len(t) /\ s = SubSeq(t, 1, Len(s))

Listed(t) == CHOOSE i \in 1..Len(agent_order) : agent_order[i] = t

InsertionOf(t) == SelectSeq(insertion, LAMBDA a : TypeOf(a) = t)

C25_TypeByType ==
    [][(kind \in {"Base", "Random"} /\ agent_order # <<>>)
       => /\ step_begin
             => keys0' = Concat([i \in 1..Len(agent_order) |->
                                    InsertionOf(agent_order[i])])
          /\ IsPrefix(KeysOf(Turns(log')), keys0')
          /\ \A i, j \in 1..Len(log') :
                (/\ i < j
                 /\ log'[i].op = "call" /\ log'[j].op = "call"
                 /\ TypeOf(log'[i].key) # TypeOf(log'[j].key))
                => Listed(TypeOf(log'[i].key)) < Listed(TypeOf(log'[j].key))
      ]_vars

C25_Witness ==
    /\ kind = "Base"
    /\ agent_order = <<"T2", "T1">>
    /\ last = "returned"
    /\ insertion = <<1, 2, 3>>
    /\ Mutations(log) = <<>>
    /\ KeysOf(Calls(log)) = <<2, 1, 3>>

(***************************************************************************)
(* C26 as stated. SimultaneousActivation: a step() that returns has        *)
(* invoked "advance" exactly once on every agent registered when phase 2   *)
(* began and on no other agent, an agent removed during phase 1 received   *)
(* no "advance", and steps and time were incremented after both phases.    *)
(***************************************************************************)
\* the position in the log at which the "advance" pass begins
Phase2Start ==
    IF \E i \in 1..Len(log) : log[i].method = "advance"
    THEN CHOOSE i \in 1..Len(log) :
            /\ log[i].method = "advance"
            /\ \A j \in 1..(i - 1) : log[j].method # "advance"
    ELSE Len(log) + 1

AdvanceTurns == SelectSeq(Turns(log), LAMBDA x : x.method = "advance")

StageTurns(e, stage) ==
    SelectSeq(e, LAMBDA x : x.op \in {"call", "skip"} /\ x.method = stage)

ModelCalls(e, stage) ==
    SelectSeq(e, LAMBDA x : x.op = "model" /\ x.method = stage)

\* the clock after a stage: self.time += self.stage_time, in doubles
AfterStage(t) == FAdd(t, FDivOne(Len(stage_list)))

C27_StageInvokesAll ==
    [][kind = "Staged"
       => /\ staged_model_stage
             => /\ Len(ModelCalls(log', stage_list[phase])) = 1
                /\ StageTurns(log', stage_list[phase]) = <<>>
                /\ time' = AfterStage(time)
          /\ staged_stage_end
             => /\ \A a \in Range(agent_keys) : CallsOf(a, stage_list[phase]) = 1
                /\ ModelCalls(log, stage_list[phase]) = <<>>
                /\ time' = AfterStage(time)
      ]_vars

(***************************************************************************)
(* C27 amended. StagedActivation.step: a stage named "model.<name>"        *)
(* invokes the model method once and gives no agent a turn; in every other *)
(* stage each entry of the list the stage starts with gets one turn, in    *)
(* list order, the stage's method is invoked on the agent if it is         *)
(* registered at its turn and the turn is skipped if it is not, and the    *)
(* model is not invoked; the list of a stage holds the agents registered   *)
(* when the stage before it ended (when step() began, for the first        *)
(* stage); after a stage of either kind time is time + stage_time.         *)
(***************************************************************************)
C27_StageDispatch ==
    [][kind = "Staged"
       => /\ staged_model_stage
             => /\ Len(ModelCalls(log', stage_list[phase])) = 1
                /\ StageTurns(log', stage_list[phase]) = <<>>
                /\ Turns(log') = Turns(log)
                /\ time' = AfterStage(time)
          /\ staged_stage_end
             => /\ KeysOf(StageTurns(log, stage_list[phase])) = agent_keys
                /\ \A i \in 1..Len(log) :
                      log[i].method = stage_list[phase]
                      => /\ log[i].op = "call" => log[i].key \in LiveAt(i)
                         /\ log[i].op = "skip" => log[i].key \notin LiveAt(i)
                /\ ModelCalls(log, stage_list[phase]) = <<>>
                /\ time' = AfterStage(time)
          /\ step_begin \/ staged_model_stage \/ staged_stage_end
             => /\ Range(agent_keys') = Range(insertion')
                /\ Len(agent_keys') = Cardinality(Range(insertion'))
          /\ \A i \in 1..Len(log') :
                is_model_stage(log'[i].method) => log'[i].op = "model"
      ]_vars

\* a step of three stages has returned: in the first a behaviour removed an
\* agent before its turn, which was skipped, the model ran the second, and
\* the third was invoked on the agents left
C27_Witness ==
    /\ kind = "Staged"
    /\ last = "returned"
    /\ Len(stage_list) = 3
    /\ \E i \in 1..Len(log) : log[i].op = "skip" /\ log[i].method = stage_list[1]
    /\ Len(ModelCalls(log, stage_list[2])) = 1
    /\ \E i \in 1..Len(log) : log[i].op = "call" /\ log[i].method = stage_list[3]

(***************************************************************************)
(* C28. StagedActivation: the list of the first stage is the enumeration   *)
(* shuffled with the model's stream iff shuffle is true; the list of a     *)
(* later stage is shuffled anew iff shuffle_between_stages is true, and    *)
(* when shuffle_between_stages is false it is the list of the stage before *)
(* it with only membership changed: the agents that the two lists share    *)
(* and that were not registered or unregistered during the step are in     *)
(* the same order in both, so the order of the start-of-step shuffle is    *)
(* kept for all stages of the step.                                        *)
(***************************************************************************)
\* the entries of list s that are also in list t, in the order of s
Shared(s, t) == SelectSeq(s, LAMBDA a : a \in Range(t))

\* list s without the agents that log e registers or unregisters
Untouched(s, e) == SelectSeq(s, LAMBDA a : a \notin Range(KeysOf(Mutations(e))))

C28_ShuffleFlags ==
    [][kind = "Staged"
       => /\ step_begin
             => IF shuffle
                THEN LET sh == random_shuffle(chain_values(agents_by_type), random)
                     IN  agent_keys' = sh.keys /\ random' = sh.rng
                ELSE agent_keys' = chain_values(agents_by_type) /\ random' = random
          /\ ((staged_stage_end \/ staged_model_stage) /\ phase < Len(stage_list))
             => IF shuffle_between_stages
                THEN LET sh == random_shuffle(chain_values(agents_by_type'), random)
                     IN  agent_keys' = sh.keys /\ random' = sh.rng
                ELSE /\ Untouched(Shared(agent_keys', agent_keys), log')
                           = Untouched(Shared(agent_keys, agent_keys'), log')
                     /\ random' = random
      ]_vars

(***************************************************************************)
(* C29. DiscreteEventScheduler.step: when the behaviour of a popped event  *)
(* runs, the clock is the time of that event, the least in the queue, and  *)
(* not end_time: the behaviour's schedule_in(delay) schedules its event at *)
(* the time of the executed event plus delay.                              *)
(***************************************************************************)
C29_ClockAtEventTime ==
    [][des_invoke
       => LET e == event_queue[1]
          IN  /\ \A i \in 1..Len(event_queue) : e.time <= event_queue[i].time
              /\ e.time <= end_time
              /\ time' = e.time
              /\ log'[Len(log) + 1] = Entry("call", e.agent, "step")
              /\ \A i \in (Len(log) + 2)..Len(log') :
                    log'[i].op = "schedule_in"
                    => \E r \in 1..RngMod :
                          OneMore(heappop(event_queue).heap, event_queue',
                                  Event(e.time + log'[i].key, r % RngMod, e.agent))
      ]_vars

\* a step() is under way in which two events were executed, the clock was
\* advanced past its value at the entry of step(), and the behaviour of the
\* later event scheduled its next event after a delay of 1, beyond end_time
C29_Witness ==
    /\ kind = "DiscreteEvent"
    /\ pc = "des_loop"
    /\ Len(Calls(log)) >= 2
    /\ time > time0
    /\ log[Len(log)] = Entry("schedule_in", 1, "-")
    /\ \E i \in 1..Len(event_queue) : event_queue[i].time = time + 1
    /\ time + 1 > end_time

(***************************************************************************)
(* C30. When a behaviour raises during step(), step() ends there with that *)
(* error: what the agents invoked before did to the registry, to their     *)
(* staged values and to the event queue stays as it is, the entries of the *)
(* pass that had not had their turn get none, the popped event is not put  *)
(* back, and steps keeps the value it had when the step began.             *)
(***************************************************************************)
\* a behaviour raises in this step of the model: in do_each, or in the loop
\* of DiscreteEventScheduler.step when the behaviour's schedule_in raises
BehaviourRaises ==
    \/ invoke_raises
    \/ des_invoke /\ pc' = "idle"

C30_ErrorPropagates ==
    [][/\ BehaviourRaises
          => /\ pc' = "idle"
             /\ last' \in {"Exception", "TypeError"}
             /\ steps' = steps0
             /\ steps' = steps
             /\ kind # "DiscreteEvent" => time' = time
             /\ UNCHANGED <<idx, agent_keys, phase, data>>
             /\ Range(insertion') = LiveAfter(live0, log')
             /\ SubSeq(log', 1, Len(log)) = log
             /\ Len(Calls(log')) = Len(Calls(log)) + 1
             /\ kind # "DiscreteEvent" => event_queue' = event_queue
             /\ kind = "DiscreteEvent"
                => \E r \in 1..RngMod :
                      OneMore(heappop(event_queue).heap, event_queue',
                              Event(time' + log'[Len(log')].key, r % RngMod,
                                    event_queue[1].agent))
       \* after the error nothing of the failed step runs any more
       /\ last \in {"Exception", "TypeError", "AttributeError"}
          => /\ pc = "idle"
             /\ log' # log => log' = <<>> \/ Calls(log') = <<>>
      ]_vars

\* the second step() has raised in a behaviour after an earlier behaviour of
\* the same pass had removed an agent, with an entry of the list still to come
C30_Witness ==
    /\ last = "Exception"
    /\ kind = "Base"
    /\ begun = 2
    /\ steps = 1
    /\ idx < Len(agent_keys)
    /\ \E i \in 1..Len(log) :
          /\ log[i].op = "remove"
          /\ log[i].key \notin Range(insertion)
          /\ \E j \in (i + 1)..Len(log) : log[j].op = "call"

(***************************************************************************)
(* C31. DiscreteEventScheduler with time_step >= 0: in every reachable     *)
(* state, the states inside step() included, no event of the queue has a   *)
(* time before the clock.                                                  *)
(***************************************************************************)
C31_NoEventInThePast ==
    (kind = "DiscreteEvent" /\ time_step >= 0)
    => \A i \in 1..Len(event_queue) : event_queue[i].time >= time

(***************************************************************************)
(* C32. DiscreteEventScheduler with time_step >= 0: the clock never        *)
(* decreases, from one operation to the next and from one executed event   *)
(* to the next inside a step(), and inside a step() it never exceeds the   *)
(* end_time of that step.                                                  *)
(***************************************************************************)
C32_ClockMonotone ==
    [][(kind = "DiscreteEvent" /\ time_step >= 0)
       => /\ time' >= time
          /\ pc' = "des_loop" => time' <= end_time'
          /\ pc = "des_loop" => time' <= end_time
      ]_vars

\* how many times the behaviour of agent a, invoked by the step whose log is
\* e, has scheduled an event (a behaviour schedules for its own agent)
PushesOf(a, e) ==
    Cardinality({j \in 2..Len(e) : /\ e[j].op = "schedule_in"
                                   /\ e[j - 1] = Entry("call", a, "step")})

\* how many events of queue q are for agent a
EventsOf(a, q) == Cardinality({i \in 1..Len(q) : q[i].agent = a})

\* a turn of the loop of DiscreteEventScheduler.step in which the behaviour
\* invoked schedules an event after delay d
Pushed(d) ==
    /\ pc = "des_loop"
    /\ Len(log') = Len(log) + 2
    /\ log'[Len(log') - 1].op = "call"
    /\ log'[Len(log')] = Entry("schedule_in", d, "-")

(***************************************************************************)
(* C33. DiscreteEventScheduler.step: an event that a behaviour pushes      *)
(* while the step runs is in the queue from then on, at the clock of the   *)
(* push plus the delay; every event the step pops has a time of at most    *)
(* end_time, so a pushed event later than end_time is not executed in the  *)
(* step, and when the step ends no event at or before end_time is left, so *)
(* a pushed event at or before end_time has been popped in it. A popped    *)
(* event is an invocation exactly when its agent is registered, so an      *)
(* agent registered through the whole step has been invoked once for each  *)
(* of its events that left the queue: those queued at the entry plus those *)
(* it pushed, less those still queued.                                     *)
(***************************************************************************)
C33_PushedEventsInWindow ==
    [][/\ \A d \in 0..MaxDelay :
             Pushed(d)
             => \E i \in 1..Len(event_queue') :
                   /\ event_queue'[i].time = time' + d
                   /\ event_queue'[i].agent = log'[Len(log') - 1].key
       /\ Popped
          => /\ event_queue[1].time <= end_time
             /\ (log'[Len(log) + 1].op = "call")
                <=> (log'[Len(log) + 1].key \in Live)
       /\ StepEnded
          => /\ \A i \in 1..Len(event_queue') :
                   event_queue'[i].time > end_time
             /\ \A a \in live0 :
                   (\A j \in 1..Len(log') :
                       ~(log'[j].op = "remove" /\ log'[j].key = a))
                   => CallsOf(a, "step")' =
                         EventsOf(a, queue0) + PushesOf(a, log')
                         - EventsOf(a, event_queue')
      ]_vars

(***************************************************************************)
(* Termination of DiscreteEventScheduler.step. The while loop of step()    *)
(* has no bound but the queue: a behaviour may schedule an event every     *)
(* time it is invoked, for as long as the step runs. Once a step is under  *)
(* way the interpreter executes its next turn (weak fairness of the turns  *)
(* of the loop); whether the caller goes on between steps is left open.    *)
(***************************************************************************)
\* the log of a long step keeps its last MaxCalls invocations
RECURSIVE recent(_)
recent(e) == IF Len(Calls(e)) <= MaxCalls THEN e ELSE recent(Tail(e))

\* one turn of the loop, in a step that has already invoked MaxCalls
\* behaviours, for an event whose agent is registered: pop, advance the
\* clock to the event's time, agent.step(), which schedules the agent's next
\* event after a delay
des_reschedule ==
    /\ pc = "des_loop"
    /\ event_due
    /\ Len(Calls(log)) >= MaxCalls
    /\ LET p == heappop(event_queue) IN
       /\ ~p.err
       /\ lookup(agents_by_type, p.item.agent)
       /\ time' = clock_at(p.item)
       /\ \E d \in 0..MaxDelay :
             LET r == schedule_in(clock_at(p.item), p.heap, random, d,
                                  p.item.agent)
             IN  /\ event_queue' = r.queue
                 /\ random' = r.rng
                 /\ log' = recent(Append(log, Entry("call", p.item.agent, "step"))
                                     \o <<Entry("schedule_in", d, "-")>>)
                 /\ pc' = IF r.err = "none" THEN "des_loop" ELSE "idle"
                 /\ last' = IF r.err = "none" THEN last ELSE r.err
    /\ UNCHANGED <<config, steps, agents_by_type, phase, agent_keys, idx,
                   end_time, data, insertion, history>>

\* a turn of the loop of DiscreteEventScheduler.step, or the statements
\* after it
des_turn ==
    \/ des_invoke
    \/ des_reschedule
    \/ des_skip
    \/ des_step_end

LiveInit ==
    /\ construct
    /\ kind = "DiscreteEvent"
    /\ time_step = MaxTimeStep
    /\ replicas = <<>>
    /\ capacity = MaxQueue

LiveNext ==
    \/ \E a \in EventAgents, now \in BOOLEAN : add(a, now)
    \/ \E a \in EventAgents : remove_agent(a)
    \/ \E t \in 0..MaxTime, a \in EventAgents : call_schedule_event(t, a)
    \/ reset_randomizer
    \/ des_step_begin
    \/ des_invoke
    \/ des_reschedule
    \/ des_skip
    \/ des_step_end

SpecLive == LiveInit /\ [][LiveNext]_vars /\ WF_vars(des_turn)

\* the behaviour invoked in the turn just made has pushed an event that is
\* due in the running step (its time, the clock plus the delay, is at most
\* end_time), whether or not the push then raised
PushedInWindow ==
    /\ log # <<>>
    /\ log[Len(log)].op = "schedule_in"
    /\ time + log[Len(log)].key <= end_time

(***************************************************************************)
(* C34. DiscreteEventScheduler.step, from any queue: a step() that is      *)
(* running leads to its return with time = end_time and steps one more     *)
(* than at its entry, unless a behaviour invoked in it pushes an event     *)
(* with a time of at most end_time; the loop has no other bound, so every  *)
(* run of the step in which no behaviour pushes such an event reaches      *)
(* that state.                                                             *)
(***************************************************************************)
C34_StepTerminates ==
    \A n \in 1..MaxSteps :
       (kind = "DiscreteEvent" /\ pc = "des_loop" /\ begun = n)
       ~> \/ /\ begun = n
             /\ pc = "idle"
             /\ last = "returned"
             /\ time = end_time
             /\ steps = steps0 + 1
          \/ /\ begun = n
             /\ PushedInWindow

====
